---- MODULE Spec2Model ----
(***************************************************************************)
(* GophKeeper server core: the auth service (Register, Login, Refresh with *)
(* refresh-session rotation and reuse detection) and the secret store      *)
(* (Create, List, Update, Delete under optimistic concurrency control).    *)
(*                                                                         *)
(* Storage is PostgreSQL: every SQL statement is one atomic step, and a    *)
(* service method that issues several statements is several steps, so      *)
(* that concurrent requests interleave between statements as they do on    *)
(* the server.  Storage faults (ErrInternal) are not modelled.  The        *)
(* variables last and resp hold the response of the step just taken and   *)
(* are cleared by every step that answers nobody.                          *)
(***************************************************************************)
EXTENDS Integers, Sequences, FiniteSets, Bags, TLC

\* ------------------------------------------------------------------ bounds
MaxTime == 2        \* the clock runs 0..MaxTime while sessions are explored
MaxStoreTime == 1   \* the clock runs 0..MaxStoreTime while the secret store is explored
MaxSessions == 3    \* rows the sessions table may hold
MaxUsers == 2       \* rows the users table may hold
NumCalls == 2       \* Refresh calls that may be in flight together
MaxLogins == 1      \* sessions opened while Register and Login are explored over every input
MaxGuarded == 1     \* rows inserted through the authenticated routes
MaxCommands == 3    \* commands the agent runs
MaxReplaces == 2    \* calls of ReplaceAll by the writer

\* --------------------------------------------------------- program constants
NullTime == -1      \* SQL NULL in a TIMESTAMPTZ column
NullID == 0         \* SQL NULL in a UUID column, also uuid.Nil
RefreshTTL == 1     \* cfg.Auth.RefreshTTL
AccessTTL == 1      \* cfg.Auth.AccessTTL
MinPasswordLen == 8

Issuer == "gophkeeper"
Audience == "gophkeeper-agent"
SigningKey == "k"

ErrInvalidInput == "invalid input"
ErrInvalidCredentials == "invalid credentials"
ErrInternal == "internal error"
ErrUnauthorized == "unauthorized"
ErrAlreadyExists == "already exists"
ErrNotFound == "not found"
ErrConflict == "conflict"
ErrUserIDEmpty == "user id cannot be empty"
OK == "ok"

\* ------------------------------------------------------------------ strings
\* A string is a sequence of one-character strings.
Whitespace == {" ", "\t"}

RECURSIVE TrimLeft(_)
TrimLeft(s) == IF s # <<>> /\ Head(s) \in Whitespace THEN TrimLeft(Tail(s)) ELSE s

RECURSIVE TrimRight(_)
TrimRight(s) ==
    IF s # <<>> /\ s[Len(s)] \in Whitespace
    THEN TrimRight(SubSeq(s, 1, Len(s) - 1))
    ELSE s

\* strings.TrimSpace
TrimSpace(s) == TrimRight(TrimLeft(s))

LowerChar(c) ==
    CASE c = "A" -> "a"
      [] c = "B" -> "b"
      [] c = "C" -> "c"
      [] c = "E" -> "e"
      [] c = "R" -> "r"
      [] OTHER -> c

\* strings.ToLower
ToLower(s) == [i \in 1..Len(s) |-> LowerChar(s[i])]

\* regexp `^[^@\s]+@[^@\s]+\.[^@\s]+$`
MatchEmail(s) ==
    \E k \in 1..Len(s), d \in 1..Len(s) :
        /\ s[k] = "@"
        /\ s[d] = "."
        /\ k > 1
        /\ d > k + 1
        /\ d < Len(s)
        /\ \A i \in (1..Len(s)) \ {k} : s[i] \notin (Whitespace \cup {"@"})

\* ------------------------------------------------------------------ inputs
EmailPlain == <<"a", "@", "b", ".", "c">>
EmailUpper == <<"A", "@", "B", ".", "c">>
EmailPadded == <<" ", "a", "@", "b", ".", "c", "\t">>
EmailOther == <<"c", "@", "b", ".", "a">>
EmailNoAt == <<"a", "b", ".", "c">>
EmailBlank == <<" ">>

PassGood == <<"p", "a", "s", "s", "w", "o", "r", "d">>
PassWrong == <<"p", "a", "s", "s", "w", "o", "r", "D">>
PassPadded == <<" ", "p", "a", "s", "s", "w", "o", "r">>
PassLongPadded == <<" ", "p", "a", "s", "s", "w", "o", "r", "d">>
PassShort == <<"p", "a", "s", "s">>
PassBlank == <<" ", " ">>

Emails == {EmailPlain, EmailUpper, EmailPadded, EmailOther, EmailNoAt, EmailBlank}
Passwords == {PassGood, PassWrong, PassPadded, PassLongPadded, PassShort, PassBlank}

\* the inputs under which the session protocol is explored
SessionEmails == {EmailPlain}
SessionPasswords == {PassGood}

\* ----------------------------------------------------------------- crypto
\* argon2.IDKey: a deterministic function of (password, salt), taken to be
\* collision free.
IDKey(password, salt) == <<salt>> \o password

\* crypto.HashPassword: the encoded verifier, or an error for a blank password
HashPassword(password) ==
    IF TrimSpace(password) = <<>>
    THEN [err |-> "empty password", alg |-> "", salt |-> "", tag |-> <<>>]
    ELSE [err |-> OK, alg |-> "argon2id", salt |-> "salt", tag |-> IDKey(password, "salt")]

\* a verification that drops the result of the constant-time comparison
VerifyPassword_NoCompare(password, encoded) ==
    IF encoded.alg # "argon2id"
    THEN [ok |-> FALSE, err |-> "invalid hash format"]
    ELSE [ok |-> TRUE, err |-> OK]

\* crypto.VerifyPassword
VerifyPassword(password, encoded) ==
    IF encoded.alg # "argon2id"
    THEN [ok |-> FALSE, err |-> "invalid hash format"]
    ELSE [ok |-> IDKey(password, encoded.salt) = encoded.tag, err |-> OK]

\* uuid.UUID.String and uuid.Parse
UUIDString(id) == <<"uuid", ToString(id)>>

ParseUUID(s) ==
    IF \E i \in 1..MaxUsers : UUIDString(i) = s
    THEN CHOOSE i \in 1..MaxUsers : UUIDString(i) = s
    ELSE NullID

NoAccess == [alg |-> "", key |-> "", iss |-> "", aud |-> <<>>, sub |-> <<>>, iat |-> 0, exp |-> 0]

\* an access token whose subject claim carries the issuer
NewAccessToken_IssuerAsSubject(userID, t) ==
    [alg |-> "HS256", key |-> SigningKey, iss |-> Issuer, aud |-> <<Audience>>,
     sub |-> <<Issuer>>, iat |-> t, exp |-> t + AccessTTL]

\* crypto.NewAccessToken at time t
NewAccessToken(userID, t) ==
    [alg |-> "HS256", key |-> SigningKey, iss |-> Issuer, aud |-> <<Audience>>,
     sub |-> userID, iat |-> t, exp |-> t + AccessTTL]

\* crypto.NewRefreshToken: the n-th draw of the random source
NewRefreshToken(n) == <<"r", ToString(n)>>

\* crypto.HashRefreshToken: SHA-256, taken to be collision free
HashRefreshToken(token) == <<"sha256">> \o token

VARIABLES
    now,             \* the server clock
    rotateRefresh,   \* cfg.Auth.Sessions.RotateRefresh
    reuseDetection,  \* cfg.Auth.Sessions.ReuseDetection
    users,           \* table users: sequence of rows, the index is the id
    sessions,        \* table sessions: sequence of rows, the index is the id
    calls,           \* the bag of Refresh calls in flight, each at a position of its code
    last,            \* the response the last step returned to its caller, if any
    registered,      \* history: the successful Register calls
    rotated          \* history: the tokens a rotating Refresh has succeeded on

authVars == <<now, rotateRefresh, reuseDetection, users, sessions, calls, last,
              registered, rotated>>

VARIABLES
    secrets,      \* table secrets: the set of rows
    inserted,     \* history: the owner of every row ever inserted, by id
    reqs,         \* the bag of Update/Delete requests awaiting their existence probe
    resp,         \* the response the last step returned to its caller, if any
    wins,         \* history: the successful Update/Delete requests, by (id, version)
    top,          \* history: the highest version every row has reached, by id
    deleted       \* history: the ids of the rows deleted

secretVars == <<secrets, inserted, reqs, resp, wins, top, deleted>>

VARIABLES
    hdr           \* the Authorization header of the request the last step served

guardVars == <<hdr>>

serverVars == <<authVars, secretVars, guardVars>>

VARIABLES
    creds,        \* the agent holds an access token
    mirror,       \* SecretsStore.secrets: the local mirror in memory
    disk,         \* the mirror as the secrets file holds it
    cmd,          \* the agent command in progress, waiting for the server
    out,          \* the outcome of the last agent command
    sent,         \* the request the agent sent last
    snap,         \* history: the mirror and its file when the command started
    ran           \* history: the number of commands started

agentVars == <<creds, mirror, disk, cmd, out, sent, snap, ran>>

VARIABLES
    mu,           \* SecretsStore.mu: the writer holding it, the number of readers
    procs,        \* the goroutines that call the store, each at a position of its code
    committed,    \* history: the content of the mirror when it was last unlocked
    previous      \* history: the content the last replacement replaced

storeVars == <<mu, procs, committed, previous>>

VARIABLES
    givenPassword,  \* the master password given to DecryptPayload
    givenBlob,      \* the blob given to DecryptPayload
    decrypted       \* what DecryptPayload returned

openVars == <<givenPassword, givenBlob, decrypted>>

sideVars == <<storeVars, openVars>>

clientVars == <<agentVars, sideVars>>

vars == <<serverVars, clientVars>>

\* request bodies of PUT /secrets/{id}, less the version: nil is <<>>, a
\* pointer to v is <<v>>
NoData == [Type |-> <<>>, Title |-> <<>>, Payload |-> <<>>, Meta |-> <<>>]

\* a response of the secrets handlers: the request it answers, the step that produced it, and its body
NoResp == [op |-> "none", step |-> "", userID |-> NullID, secretID |-> NullID, version |-> 0,
           data |-> NoData, err |-> OK, status |-> 0, secrets |-> <<>>]

\* ------------------------------------------------------- table users
NoHash == [err |-> "", alg |-> "", salt |-> "", tag |-> <<>>]

\* UsersRepository.GetByEmail
GetByEmail(us, email) ==
    IF \E i \in DOMAIN us : us[i].email = email
    THEN LET i == CHOOSE j \in DOMAIN us : us[j].email = email
         IN [err |-> OK, id |-> i, hash |-> us[i].password_hash]
    ELSE [err |-> ErrNotFound, id |-> NullID, hash |-> NoHash]

\* UsersRepository.Create: email is UNIQUE, the id is generated by the table
UsersCreate(us, email, passwordHash) ==
    IF \E i \in DOMAIN us : us[i].email = email
    THEN [err |-> ErrAlreadyExists, id |-> NullID, users |-> us]
    ELSE [err |-> OK, id |-> Len(us) + 1,
          users |-> Append(us, [email |-> email, password_hash |-> passwordHash])]

\* ---------------------------------------------------- table sessions
\* SessionsRepository.Create: refresh_hash is UNIQUE
SessionsCreate(ss, userID, refreshHash, expiresAt) ==
    IF \E i \in DOMAIN ss : ss[i].refresh_hash = refreshHash
    THEN [err |-> ErrConflict, id |-> NullID, sessions |-> ss]
    ELSE [err |-> OK, id |-> Len(ss) + 1,
          sessions |-> Append(ss, [user_id |-> userID, refresh_hash |-> refreshHash,
                                   expires_at |-> expiresAt, revoked_at |-> NullTime,
                                   replaced_by |-> NullID])]

\* SessionsRepository.GetByRefreshHash
GetByRefreshHash(ss, refreshHash) ==
    IF \E i \in DOMAIN ss : ss[i].refresh_hash = refreshHash
    THEN LET i == CHOOSE j \in DOMAIN ss : ss[j].refresh_hash = refreshHash
         IN [err |-> OK, sessID |-> i, userID |-> ss[i].user_id,
             expiresAt |-> ss[i].expires_at, revokedAt |-> ss[i].revoked_at]
    ELSE [err |-> ErrUnauthorized, sessID |-> NullID, userID |-> NullID,
          expiresAt |-> 0, revokedAt |-> NullTime]

\* a rotation that links the replacement but leaves the old session active
RevokeAndReplace_LinkOnly(ss, oldID, newID, t) ==
    [i \in DOMAIN ss |->
        IF i = oldID /\ ss[i].revoked_at = NullTime
        THEN [ss[i] EXCEPT !.replaced_by = newID]
        ELSE ss[i]]

\* a rotation whose WHERE clause does not ask for an active session
RevokeAndReplace_Unguarded(ss, oldID, newID, t) ==
    [i \in DOMAIN ss |->
        IF i = oldID
        THEN [ss[i] EXCEPT !.revoked_at = t, !.replaced_by = newID]
        ELSE ss[i]]

\* a rotation that revokes the old session and does not record its replacement
RevokeAndReplace_RevokeOnly(ss, oldID, newID, t) ==
    [i \in DOMAIN ss |->
        IF i = oldID /\ ss[i].revoked_at = NullTime
        THEN [ss[i] EXCEPT !.revoked_at = t]
        ELSE ss[i]]

\* SessionsRepository.RevokeAndReplace at database time t
RevokeAndReplace(ss, oldID, newID, t) ==
    [i \in DOMAIN ss |->
        IF i = oldID /\ ss[i].revoked_at = NullTime
        THEN [ss[i] EXCEPT !.revoked_at = t, !.replaced_by = newID]
        ELSE ss[i]]

\* a mass revoke whose WHERE clause matches the session id against the user id
RevokeAllForUser_ByID(ss, userID, t) ==
    [i \in DOMAIN ss |->
        IF i = userID /\ ss[i].revoked_at = NullTime
        THEN [ss[i] EXCEPT !.revoked_at = t]
        ELSE ss[i]]

\* SessionsRepository.RevokeAllForUser at database time t
RevokeAllForUser(ss, userID, t) ==
    [i \in DOMAIN ss |->
        IF ss[i].user_id = userID /\ ss[i].revoked_at = NullTime
        THEN [ss[i] EXCEPT !.revoked_at = t]
        ELSE ss[i]]

\* ------------------------------------------------------- auth service
NoCall == [op |-> "none", email |-> <<>>, password |-> <<>>, token |-> <<>>, err |-> OK,
           id |-> NullID, access |-> NoAccess, refresh |-> <<>>,
           lookedUp |-> FALSE, found |-> FALSE, late |-> FALSE]

\* the input check of AuthService.Register, on the normalised inputs
RegisterInvalid(email, password) ==
    \/ email = <<>>
    \/ password = <<>>
    \/ ~MatchEmail(email)
    \/ Len(password) < MinPasswordLen

\* a Login that checks its inputs as Register does
LoginInvalid_AsRegister(email, password) == RegisterInvalid(email, password)

\* the input check of AuthService.Login, on the normalised inputs
LoginInvalid(email, password) ==
    \/ email = <<>>
    \/ password = <<>>

\* AuthService.Register
Register(e, p) ==
    LET email == TrimSpace(ToLower(e))
        password == TrimSpace(p)
        hash == HashPassword(password)
        created == UsersCreate(users, email, hash)
        res == IF RegisterInvalid(email, password)
               THEN [err |-> ErrInvalidInput, id |-> NullID, users |-> users]
               ELSE IF hash.err # OK THEN [err |-> ErrInternal, id |-> NullID, users |-> users]
               ELSE created
    IN /\ res.err = OK => Len(users) < MaxUsers
       /\ users' = res.users
       /\ last' = [NoCall EXCEPT !.op = "register", !.email = e, !.password = p,
                                 !.err = res.err, !.id = res.id,
                                 !.found = GetByEmail(users, email).err = OK]
       /\ registered' = IF res.err = OK
                        THEN registered \cup {[email |-> e, password |-> p, id |-> res.id]}
                        ELSE registered
       /\ UNCHANGED <<now, rotateRefresh, reuseDetection, sessions, calls, rotated>>
       /\ resp' = NoResp
       /\ UNCHANGED <<secrets, inserted, reqs, wins, top, deleted>>

\* AuthService.Login
Login(e, p) ==
    LET email == TrimSpace(ToLower(e))
        password == TrimSpace(p)
        invalid == LoginInvalid(email, password)
        u == GetByEmail(users, email)
        v == VerifyPassword(password, u.hash)
        access == NewAccessToken(UUIDString(u.id), now)
        refresh == NewRefreshToken(Len(sessions) + 1)
        created == SessionsCreate(sessions, u.id, HashRefreshToken(refresh), now + RefreshTTL)
        err == IF invalid THEN ErrInvalidInput
               ELSE IF u.err = ErrNotFound THEN ErrInvalidCredentials
               ELSE IF u.err # OK THEN u.err
               ELSE IF v.err # OK THEN ErrInternal
               ELSE IF ~v.ok THEN ErrInvalidCredentials
               ELSE created.err
    IN /\ err = OK => Len(sessions) < MaxSessions
       /\ sessions' = IF err = OK THEN created.sessions ELSE sessions
       /\ last' = [NoCall EXCEPT !.op = "login", !.email = e, !.password = p, !.err = err,
                                 !.access = IF err = OK THEN access ELSE NoAccess,
                                 !.refresh = IF err = OK THEN refresh ELSE <<>>,
                                 !.lookedUp = ~invalid,
                                 !.found = u.err = OK]
       /\ UNCHANGED <<now, rotateRefresh, reuseDetection, users, calls, registered, rotated>>
       /\ resp' = NoResp
       /\ UNCHANGED <<secrets, inserted, reqs, wins, top, deleted>>

\* ---- AuthService.Refresh, one step per statement sent to the database
\* a call in flight: where it stands and the locals it still needs
NewCall == [pc |-> "", token |-> <<>>, sessID |-> NullID, userID |-> NullID, now |-> 0,
            newID |-> NullID, late |-> FALSE]

\* expiresAt.Before(now)
Before(expiresAt, t) == expiresAt < t

\* the refresh tokens a client may present: blank ones, a forged one, and any
\* token the server has issued, bare or padded with white space
Presentable ==
    {<<>>, <<" ">>, <<"x">>}
    \cup {NewRefreshToken(n) : n \in 1..Len(sessions)}
    \cup {<<" ">> \o NewRefreshToken(n) : n \in 1..Len(sessions)}

\* a response that leaves the refresh token out
Reply_NoRefresh(c, err, access, refresh) ==
    [NoCall EXCEPT !.op = "refresh", !.token = c.token, !.err = err, !.access = access,
                   !.late = c.late]

\* the response of a Refresh call
Reply(c, err, access, refresh) ==
    [NoCall EXCEPT !.op = "refresh", !.token = c.token, !.err = err, !.access = access,
                   !.refresh = refresh, !.late = c.late]

\* Refresh up to and including GetByRefreshHash and the checks on its result
RefreshBegin(tok) ==
    LET refreshToken == TrimSpace(tok)
        g == GetByRefreshHash(sessions, HashRefreshToken(refreshToken))
        access == NewAccessToken(UUIDString(g.userID), now)
        c == [NewCall EXCEPT !.token = refreshToken, !.late = refreshToken \in rotated,
                             !.sessID = g.sessID, !.userID = g.userID, !.now = now]
        goes == IF refreshToken = <<>> \/ g.err # OK \/ Before(g.expiresAt, now) THEN ""
                ELSE IF g.revokedAt # NullTime
                     THEN IF reuseDetection THEN "revokeAll" ELSE ""
                ELSE IF ~rotateRefresh THEN "" ELSE "create"
    IN /\ BagCardinality(calls) < NumCalls
       /\ calls' = IF goes = "" THEN calls ELSE calls (+) SetToBag({[c EXCEPT !.pc = goes]})
       /\ last' =
            IF goes # "" THEN NoCall
            ELSE IF refreshToken = <<>> THEN Reply(c, ErrInvalidInput, NoAccess, <<>>)
            ELSE IF g.err # OK THEN Reply(c, g.err, NoAccess, <<>>)
            ELSE IF Before(g.expiresAt, now) THEN Reply(c, ErrUnauthorized, NoAccess, <<>>)
            ELSE IF g.revokedAt # NullTime THEN Reply(c, ErrUnauthorized, NoAccess, <<>>)
            ELSE Reply(c, OK, access, refreshToken)
       /\ UNCHANGED <<now, rotateRefresh, reuseDetection, users, sessions, registered, rotated>>
       /\ resp' = NoResp
       /\ UNCHANGED <<secrets, inserted, reqs, wins, top, deleted>>

\* Refresh: the mass revoke on a reused token
RefreshRevokeAll(c) ==
    /\ BagIn(c, calls)
    /\ c.pc = "revokeAll"
    /\ sessions' = RevokeAllForUser(sessions, c.userID, now)
    /\ calls' = calls (-) SetToBag({c})
    /\ last' = Reply(c, ErrUnauthorized, NoAccess, <<>>)
    /\ UNCHANGED <<now, rotateRefresh, reuseDetection, users, registered, rotated>>
    /\ resp' = NoResp
    /\ UNCHANGED <<secrets, inserted, reqs, wins, top, deleted>>

\* Refresh: NewRefreshToken and sessions.Create of the successor session
RefreshCreate(c) ==
    LET newRefresh == NewRefreshToken(Len(sessions) + 1)
        created == SessionsCreate(sessions, c.userID, HashRefreshToken(newRefresh),
                                  c.now + RefreshTTL)
    IN /\ BagIn(c, calls)
       /\ c.pc = "create"
       /\ Len(sessions) < MaxSessions
       /\ sessions' = created.sessions
       /\ calls' = IF created.err # OK
                   THEN calls (-) SetToBag({c})
                   ELSE (calls (-) SetToBag({c}))
                        (+) SetToBag({[c EXCEPT !.pc = "revokeAndReplace", !.newID = created.id]})
       /\ last' = IF created.err # OK THEN Reply(c, created.err, NoAccess, <<>>) ELSE NoCall
       /\ UNCHANGED <<now, rotateRefresh, reuseDetection, users, registered, rotated>>
       /\ resp' = NoResp
       /\ UNCHANGED <<secrets, inserted, reqs, wins, top, deleted>>

\* Refresh: RevokeAndReplace of the presented session, then the new pair
RefreshRevokeAndReplace(c) ==
    /\ BagIn(c, calls)
    /\ c.pc = "revokeAndReplace"
    /\ sessions' = RevokeAndReplace(sessions, c.sessID, c.newID, now)
    /\ calls' = calls (-) SetToBag({c})
    /\ last' = Reply(c, OK, NewAccessToken(UUIDString(c.userID), c.now), NewRefreshToken(c.newID))
    /\ rotated' = rotated \cup {c.token}
    /\ UNCHANGED <<now, rotateRefresh, reuseDetection, users, registered>>
    /\ resp' = NoResp
    /\ UNCHANGED <<secrets, inserted, reqs, wins, top, deleted>>

\* =================================================================== secrets
MaxSecrets == 2     \* rows ever inserted into the secrets table
MaxVersion == 2     \* the highest version a row is taken to
NumReqs == 1        \* Update/Delete requests that may await their probe together

MaxPayloadBytes == 3   \* cfg.Secrets.MaxPayloadBytes
MaxMetaBytes == 2      \* cfg.Secrets.MaxMetaBytes
AllowedTypes == {<<"text">>, <<"otp">>}   \* cfg.Secrets.AllowedTypes
\* CREATE TYPE secret_type AS ENUM
SecretTypeEnum == {<<"login_password">>, <<"text">>, <<"binary">>, <<"bank_card">>, <<"otp">>}

ErrPayloadTooLarge == "payload too large"
\* the sentinel UpdateSecret returns for a stale version: a version conflict
ErrSecretVersionConflict == ErrConflict

\* the authenticated users on whose behalf requests arrive
SecretUsers == {1, 2}

\* request bodies of POST /secrets
CreateInputs ==
    {[type |-> <<"text">>, title |-> <<"t1">>, payload |-> <<"c", "1">>, meta |-> <<>>],
     [type |-> <<"bogus">>, title |-> <<"t1">>, payload |-> <<"c", "1">>, meta |-> <<>>],
     [type |-> <<"text">>, title |-> <<>>, payload |-> <<"c", "1">>, meta |-> <<>>],
     [type |-> <<" ", "otp">>, title |-> <<"t1">>, payload |-> <<"c", "1", "2", "3">>,
      meta |-> <<>>]}


\* request bodies of PUT /secrets/{id}, less the version
UpdateInputs ==
    {NoData,
     [NoData EXCEPT !.Title = << <<"t2">> >>, !.Meta = << <<"m">> >>],
     [NoData EXCEPT !.Type = << <<"bogus">> >>]}

\* ---- the HTTP status the handlers answer with
CreateStatus(err) ==
    CASE err = OK -> 201
      [] err = ErrInvalidInput -> 400
      [] err = ErrPayloadTooLarge -> 413
      [] err = ErrUnauthorized -> 401
      [] OTHER -> 500

\* an error switch without the case for a conflict
MutateStatus_NoConflictCase(err) ==
    CASE err = OK -> 204
      [] err = ErrNotFound -> 404
      [] OTHER -> 500

\* the error switch shared by Handler.UpdateSecret and Handler.DeleteSecret
MutateStatus(err) ==
    CASE err = OK -> 204
      [] err = ErrConflict -> 409
      [] err = ErrNotFound -> 404
      [] OTHER -> 500

\* ---- SecretsService.validateType
validateType(t) == IF t \in AllowedTypes THEN OK ELSE ErrInvalidInput

\* SecretsService.Create: the checks before the repository is called
CreateValidate(typ, title, payload, meta) ==
    IF title = <<>> \/ payload = <<>> THEN ErrInvalidInput
    ELSE IF validateType(TrimSpace(typ)) # OK THEN validateType(TrimSpace(typ))
    ELSE IF Len(payload) > MaxPayloadBytes THEN ErrPayloadTooLarge
    ELSE IF meta # <<>> /\ Len(meta[1]) > MaxMetaBytes THEN ErrInvalidInput
    ELSE OK

\* SecretsRepository.Create: INSERT ... RETURNING id, version, updated_at; the
\* version column defaults to 1 and both timestamps to now()
SecretsInsert(tbl, id, userID, typ, title, payload, meta, t) ==
    tbl \cup {[id |-> id, user_id |-> userID, type |-> typ, title |-> title,
               payload |-> payload, meta |-> meta, version |-> 1,
               updated_at |-> t, created_at |-> t]}

\* COALESCE($n, column)
Coalesce(arg, column) == IF arg = <<>> THEN column ELSE arg[1]

\* a WHERE clause without the version predicate
Gated_NoVersion(tbl, userID, secretID, version) ==
    {row \in tbl : row.user_id = userID /\ row.id = secretID}

\* the rows the WHERE clause of the UPDATE and of the DELETE selects
Gated(tbl, userID, secretID, version) ==
    {row \in tbl : row.user_id = userID /\ row.id = secretID /\ row.version = version}

\* a SET clause without COALESCE: a field that was not supplied is emptied
UpdateRow_NoCoalesce(row, data, t) ==
    [row EXCEPT !.type = IF data.Type = <<>> THEN <<>> ELSE data.Type[1],
                !.title = IF data.Title = <<>> THEN <<>> ELSE data.Title[1],
                !.payload = IF data.Payload = <<>> THEN <<>> ELSE data.Payload[1],
                !.meta = data.Meta,
                !.version = row.version + 1,
                !.updated_at = t]

\* a SET clause that leaves the version column alone
UpdateRow_KeepVersion(row, data, t) ==
    [row EXCEPT !.type = Coalesce(data.Type, row.type),
                !.title = Coalesce(data.Title, row.title),
                !.payload = Coalesce(data.Payload, row.payload),
                !.meta = IF data.Meta = <<>> THEN row.meta ELSE data.Meta,
                !.updated_at = t]

\* the SET clause of the UPDATE at database time t
UpdateRow(row, data, t) ==
    [row EXCEPT !.type = Coalesce(data.Type, row.type),
                !.title = Coalesce(data.Title, row.title),
                !.payload = Coalesce(data.Payload, row.payload),
                !.meta = IF data.Meta = <<>> THEN row.meta ELSE data.Meta,
                !.version = row.version + 1,
                !.updated_at = t]

\* the UPDATE statement of SecretsRepository.UpdateSecret
UpdateSecretExec(tbl, userID, secretID, data, version, t) ==
    LET hit == Gated(tbl, userID, secretID, version)
    IN IF data.Type # <<>> /\ data.Type[1] \notin SecretTypeEnum
       THEN [err |-> ErrInternal, affected |-> 0, secrets |-> tbl]
       ELSE [err |-> OK, affected |-> Cardinality(hit),
             secrets |-> (tbl \ hit) \cup {UpdateRow(row, data, t) : row \in hit}]

\* the DELETE statement of SecretsRepository.DeleteSecret
DeleteSecretExec(tbl, userID, secretID, version) ==
    LET hit == Gated(tbl, userID, secretID, version)
    IN [err |-> OK, affected |-> Cardinality(hit), secrets |-> tbl \ hit]

\* an existence probe that looks for the id under any user
SecretExists_AnyUser(tbl, userID, secretID) ==
    \E row \in tbl : row.id = secretID

\* SELECT EXISTS (SELECT 1 FROM secrets WHERE user_id = $1 AND id = $2)
SecretExists(tbl, userID, secretID) ==
    \E row \in tbl : row.user_id = userID /\ row.id = secretID

\* a SELECT without the user_id predicate
ListRows_AllUsers(tbl, userID) ==
    {[id |-> row.id, type |-> row.type, title |-> row.title, payload |-> row.payload,
      meta |-> row.meta, version |-> row.version, updated_at |-> row.updated_at,
      created_at |-> row.created_at] : row \in tbl}

\* the rows SecretsRepository.ListSecrets selects, less the user_id column
ListRows(tbl, userID) ==
    {[id |-> row.id, type |-> row.type, title |-> row.title, payload |-> row.payload,
      meta |-> row.meta, version |-> row.version, updated_at |-> row.updated_at,
      created_at |-> row.created_at] : row \in {r \in tbl : r.user_id = userID}}

\* ORDER BY updated_at DESC: every order of the rows that the clause admits
ListOrders(rows) ==
    {q \in [1..Cardinality(rows) -> rows] :
        /\ \A i, j \in DOMAIN q : i # j => q[i] # q[j]
        /\ \A i, j \in DOMAIN q : i < j => q[i].updated_at >= q[j].updated_at}

\* ---- the secrets handlers, one step per statement sent to the database

\* POST /secrets: Handler.CreateSecret, SecretsService.Create and the INSERT
SecretCreate(u, in) ==
    LET st == TrimSpace(in.type)
        v == CreateValidate(in.type, in.title, in.payload, in.meta)
        err == IF v # OK THEN v
               ELSE IF st \notin SecretTypeEnum THEN ErrInternal
               ELSE IF u \notin DOMAIN users THEN ErrInternal
               ELSE OK
        id == Len(inserted) + 1
    IN /\ err = OK => Len(inserted) < MaxSecrets
       /\ secrets' = IF err = OK
                     THEN SecretsInsert(secrets, id, u, st, in.title, in.payload, in.meta, now)
                     ELSE secrets
       /\ inserted' = IF err = OK THEN Append(inserted, u) ELSE inserted
       /\ top' = IF err = OK THEN [top EXCEPT ![id] = 1] ELSE top
       /\ resp' = [NoResp EXCEPT !.op = "create", !.step = IF v # OK THEN "service" ELSE "exec",
                                 !.userID = u, !.err = err,
                                 !.status = CreateStatus(err),
                                 !.secretID = IF err = OK THEN id ELSE NullID,
                                 !.version = IF err = OK THEN 1 ELSE 0]
       /\ last' = NoCall
       /\ UNCHANGED <<reqs, wins, deleted>>
       /\ UNCHANGED <<now, rotateRefresh, reuseDetection, users, sessions, calls,
                      registered, rotated>>

\* GET /secrets: Handler.ListSecrets, SecretsService.ListSecrets and the SELECT
SecretList(u) ==
    /\ IF u = NullID
       THEN resp' = [NoResp EXCEPT !.op = "list", !.step = "service", !.userID = u,
                                   !.err = ErrUserIDEmpty, !.status = 500]
       ELSE \E q \in ListOrders(ListRows(secrets, u)) :
                resp' = [NoResp EXCEPT !.op = "list", !.step = "exec", !.userID = u,
                                       !.status = 200, !.secrets = q]
    /\ last' = NoCall
    /\ UNCHANGED <<secrets, inserted, reqs, wins, top, deleted>>
    /\ UNCHANGED <<now, rotateRefresh, reuseDetection, users, sessions, calls,
                   registered, rotated>>

\* the response of Handler.UpdateSecret and Handler.DeleteSecret
Answer(q, step, err) ==
    [NoResp EXCEPT !.op = q.op, !.step = step, !.userID = q.userID, !.secretID = q.secretID,
                   !.version = q.version, !.err = err, !.status = MutateStatus(err)]

\* the response to a request that is refused whatever the table holds: by the
\* handler or the service before any statement is sent, or by the statement
Refusal(q, step, err) ==
    [NoResp EXCEPT !.op = q.op, !.step = step, !.userID = q.userID, !.err = err,
                   !.status = MutateStatus(err)]

\* PUT or DELETE /secrets/{id}: the handler, the service, and the UPDATE or
\* DELETE statement gated on the expected version
SecretMutate(op, u, id, ver, data) ==
    LET q == [op |-> op, userID |-> u, secretID |-> id, version |-> ver]
        res == IF op = "update"
               THEN UpdateSecretExec(secrets, u, id, data, ver, now)
               ELSE DeleteSecretExec(secrets, u, id, ver)
        rejected == IF op = "delete" /\ ver <= 0 THEN ErrInvalidInput
                    ELSE IF u = NullID THEN ErrUserIDEmpty
                    ELSE OK
        won == rejected = OK /\ res.err = OK /\ res.affected > 0
        pending == rejected = OK /\ res.err = OK /\ res.affected = 0
    IN /\ op = "delete" => data = NoData
       /\ (op = "update" /\ won) => ver < MaxVersion
       /\ pending => BagCardinality(reqs) < NumReqs
       /\ secrets' = IF rejected = OK THEN res.secrets ELSE secrets
       /\ reqs' = IF pending THEN reqs (+) SetToBag({q}) ELSE reqs
       /\ resp' = IF rejected = ErrInvalidInput
                  THEN [Refusal(q, "service", rejected) EXCEPT !.status = 400]
                  ELSE IF rejected # OK THEN Refusal(q, "service", rejected)
                  ELSE IF res.err # OK THEN Refusal(q, "exec", res.err)
                  ELSE IF won THEN [Answer(q, "exec", OK) EXCEPT !.data = data]
                  ELSE NoResp
       /\ wins' = IF won THEN [wins EXCEPT ![<<id, ver>>] = @ + 1] ELSE wins
       /\ top' = IF won /\ op = "update" THEN [top EXCEPT ![id] = ver + 1] ELSE top
       /\ deleted' = IF won /\ op = "delete" THEN deleted \cup {id} ELSE deleted
       /\ last' = NoCall
       /\ UNCHANGED inserted
       /\ UNCHANGED <<now, rotateRefresh, reuseDetection, users, sessions, calls,
                      registered, rotated>>

\* the existence probe that tells a stale version from an absent row
SecretProbe(q) ==
    LET exists == SecretExists(secrets, q.userID, q.secretID)
    IN /\ BagIn(q, reqs)
       /\ reqs' = reqs (-) SetToBag({q})
       /\ resp' = IF ~exists THEN Answer(q, "probe", ErrNotFound)
                  ELSE IF q.op = "update" THEN Answer(q, "probe", ErrSecretVersionConflict)
                  ELSE Answer(q, "probe", ErrConflict)
       /\ last' = NoCall
       /\ UNCHANGED <<secrets, inserted, wins, top, deleted>>
       /\ UNCHANGED <<now, rotateRefresh, reuseDetection, users, sessions, calls,
                      registered, rotated>>

\* the clock advances, up to the limit of the exploration
Tick(limit) ==
    /\ now < limit
    /\ now' = now + 1
    /\ last' = NoCall
    /\ resp' = NoResp
    /\ UNCHANGED <<rotateRefresh, reuseDetection, users, sessions, calls, registered, rotated>>
    /\ UNCHANGED <<secrets, inserted, reqs, wins, top, deleted>>

\* ------------------------------------------------------ bearer authentication
\* strings.EqualFold
EqualFold(a, b) == ToLower(a) = ToLower(b)

\* strings.SplitN(h, " ", 2)
SplitN2(h) ==
    IF \E i \in 1..Len(h) : h[i] = " "
    THEN LET i == CHOOSE i \in 1..Len(h) : h[i] = " " /\ \A j \in 1..(i - 1) : h[j] # " "
         IN <<SubSeq(h, 1, i - 1), SubSeq(h, i + 1, Len(h))>>
    ELSE <<h>>

BearerScheme == <<"B", "e", "a", "r", "e", "r">>

\* a lookup of the header that accepts any scheme
ExtractBearer_AnyScheme(h) ==
    LET t == TrimSpace(h)
        parts == SplitN2(t)
    IN IF t = <<>> THEN <<>>
       ELSE IF Len(parts) # 2 THEN <<>>
       ELSE TrimSpace(parts[2])

\* middleware.ExtractBearer: the token of `Bearer <token>`, or the empty string
ExtractBearer(h) ==
    LET t == TrimSpace(h)
        parts == SplitN2(t)
    IN IF t = <<>> THEN <<>>
       ELSE IF Len(parts) # 2 \/ ~EqualFold(parts[1], BearerScheme) THEN <<>>
       ELSE TrimSpace(parts[2])

\* uuid.Parse: the nil UUID parses, to uuid.Nil
UUIDParse(s) ==
    IF \E i \in 0..MaxUsers : UUIDString(i) = s
    THEN [ok |-> TRUE, id |-> CHOOSE i \in 0..MaxUsers : UUIDString(i) = s]
    ELSE [ok |-> FALSE, id |-> NullID]

\* The compact tokens a client may present, by what they decode to. An absent
\* exp claim is NullTime.
Minted(u, t) == NewAccessToken(UUIDString(u), t)

TokenClaims ==
    [name \in {"u1", "u2", "u1late", "nil", "noexp", "aud2", "none", "hs512", "forged",
               "iss", "noiss", "aud", "noaud", "sub", "nosub", "junk"} |->
        CASE name = "u1" -> Minted(1, 0)
          [] name = "u2" -> Minted(2, 0)
          [] name = "u1late" -> Minted(1, 1)
          [] name = "nil" -> Minted(NullID, 0)
          [] name = "noexp" -> [Minted(1, 0) EXCEPT !.exp = NullTime]
          [] name = "aud2" -> [Minted(2, 0) EXCEPT !.aud = <<"other", Audience>>]
          [] name = "none" -> [Minted(1, 0) EXCEPT !.alg = "none", !.key = ""]
          [] name = "hs512" -> [Minted(1, 0) EXCEPT !.alg = "HS512"]
          [] name = "forged" -> [Minted(1, 0) EXCEPT !.key = "other"]
          [] name = "iss" -> [Minted(1, 0) EXCEPT !.iss = "other"]
          [] name = "noiss" -> [Minted(1, 0) EXCEPT !.iss = ""]
          [] name = "aud" -> [Minted(1, 0) EXCEPT !.aud = <<"other">>]
          [] name = "noaud" -> [Minted(1, 0) EXCEPT !.aud = <<>>]
          [] name = "sub" -> [Minted(1, 0) EXCEPT !.sub = <<"x">>]
          [] name = "nosub" -> [Minted(1, 0) EXCEPT !.sub = <<" ">>]
          [] OTHER -> NoAccess]

TokenNames == DOMAIN TokenClaims

\* the token a compact string decodes to; a string that is no JWT decodes to nothing
Decode(tokenStr) ==
    IF Len(tokenStr) = 1 /\ tokenStr[1] \in TokenNames THEN TokenClaims[tokenStr[1]]
    ELSE NoAccess

\* a parser that accepts whatever the token says about its own algorithm
ParseWithClaims_AnyMethod(tokenStr, t) ==
    LET c == Decode(tokenStr)
    IN IF c = NoAccess THEN "token is malformed"
       ELSE IF c.alg # "none" /\ c.key # SigningKey THEN "signature is invalid"
       ELSE IF c.exp # NullTime /\ ~(t < c.exp) THEN "token is expired"
       ELSE OK

\* jwt.Parser.ParseWithClaims under WithValidMethods(HS256) and the server key:
\* the method, then the signature, then the registered claims; exp is checked
\* when the token carries it
ParseWithClaims(tokenStr, t) ==
    LET c == Decode(tokenStr)
    IN IF c = NoAccess THEN "token is malformed"
       ELSE IF c.alg # "HS256" THEN "signing method is invalid"
       ELSE IF c.key # SigningKey THEN "signature is invalid"
       ELSE IF c.exp # NullTime /\ ~(t < c.exp) THEN "token is expired"
       ELSE OK

Denied(msg) == [ok |-> FALSE, userID |-> NullID, msg |-> msg]

\* JWTVerifier.AuthMiddleware at time t: whether the next handler runs, and
\* the user id its context then carries
AuthMiddleware(h, t) ==
    LET tokenStr == ExtractBearer(h)
        err == ParseWithClaims(tokenStr, t)
        claims == Decode(tokenStr)
        userIDStr == TrimSpace(claims.sub)
        userID == UUIDParse(userIDStr)
    IN IF tokenStr = <<>> THEN Denied("missing bearer token")
       ELSE IF err = "token is expired" THEN Denied("token expired")
       ELSE IF err # OK THEN Denied("invalid token")
       ELSE IF Issuer # "" /\ claims.iss # Issuer THEN Denied("invalid token issuer")
       ELSE IF Audience # "" /\ ~\E i \in DOMAIN claims.aud : claims.aud[i] = Audience
            THEN Denied("invalid token audience")
       ELSE IF userIDStr = <<>> THEN Denied("invalid token subject")
       ELSE IF ~userID.ok THEN Denied("invalid user id")
       ELSE [ok |-> TRUE, userID |-> userID.id, msg |-> ""]

\* the values of the Authorization header the clients send
Bearer(tok) == BearerScheme \o <<" ", tok>>

MalformedHeaders ==
    {<<>>, <<" ">>, BearerScheme, BearerScheme \o <<" ">>, BearerScheme \o <<"\t", "u1">>,
     <<"B", "a", "s", "i", "c", " ", "u1">>, <<"u1">>}

Headers ==
    MalformedHeaders
    \cup {Bearer(tok) : tok \in TokenNames}
    \cup {<<"b", "e", "a", "r", "e", "r", " ", "u1">>,
          <<"B", "E", "A", "R", "E", "R", " ", "u2">>,
          <<" ">> \o BearerScheme \o <<" ", " ", "u1", "\t">>,
          BearerScheme \o <<" ", "u1", " ", "x">>}

\* request bodies of PUT /secrets/{id} that the validation policy is about
GuardedUpdateInputs ==
    {NoData,
     [NoData EXCEPT !.Title = << <<"t2">> >>],
     [NoData EXCEPT !.Type = << <<"binary">> >>],
     [NoData EXCEPT !.Type = << <<"bogus">> >>],
     [NoData EXCEPT !.Meta = << <<"m", "m", "m">> >>],
     [NoData EXCEPT !.Payload = << <<"c", "1", "2", "3">> >>]}

\* what the middleware makes of every header at every time of the exploration
Verdict == [t \in 0..MaxStoreTime |-> [h \in Headers |-> AuthMiddleware(h, t)]]

\* the middleware answers 401 itself: the next handler does not run
AuthReject(op, h) ==
    LET v == Verdict[now][h]
    IN /\ ~v.ok
       /\ resp' = [NoResp EXCEPT !.op = op, !.step = "auth", !.err = v.msg, !.status = 401]
       /\ hdr' = h
       /\ last' = NoCall
       /\ UNCHANGED clientVars
       /\ UNCHANGED <<secrets, inserted, reqs, wins, top, deleted>>
       /\ UNCHANGED <<now, rotateRefresh, reuseDetection, users, sessions, calls,
                      registered, rotated>>

\* the routes of the protected group: the middleware, then the handler with
\* the user id of the context
GuardedCreate(h, in) ==
    LET v == Verdict[now][h]
    IN v.ok /\ SecretCreate(v.userID, in) /\ Len(inserted') <= MaxGuarded
       /\ hdr' = h /\ UNCHANGED clientVars

GuardedList(h) ==
    LET v == Verdict[now][h]
    IN v.ok /\ SecretList(v.userID) /\ hdr' = h /\ UNCHANGED clientVars

GuardedMutate(op, h, id, ver, data) ==
    LET v == Verdict[now][h]
    IN v.ok /\ SecretMutate(op, v.userID, id, ver, data) /\ hdr' = h /\ UNCHANGED clientVars

\* ===================================================================== agent
\* ------------------------------------------------------ payload encryption
\* A blob is a sequence of bytes; a byte is a string.
FormatMagic == <<"g", "k", "1">>
SaltSize == 16
NonceSize == 12
TagSize == 16       \* cipher.NewGCM: the length of the authentication tag
MasterPassword == "pw"

ErrInvalidFormat == "invalid ciphertext format"
ErrAuthFailed == "decryption failed (wrong password or corrupted data)"
ErrCiphertextShort == "ciphertext too short"

Repeat(c, n) == [i \in 1..n |-> c]

RECURSIVE Join(_)
Join(s) == IF s = <<>> THEN "" ELSE Head(s) \o Join(Tail(s))

\* the plaintexts the users encrypt
Plaintexts == {<<>>, <<"p">>, <<"p", "q">>}

\* NewSalt and the nonce: one draw of crypto/rand
NewSalt(n) == Repeat("s", n)

NewNonce == Repeat("n", NonceSize)

\* argon2.IDKey over the master password and the salt, taken to be collision free
DeriveKey(masterPassword, salt) == masterPassword \o "/" \o Join(salt)

\* gcm.Seal: as many bytes as the plaintext, then the tag, which binds the
\* key, the nonce and the plaintext
Seal(key, nonce, plaintext) ==
    Repeat("c", Len(plaintext))
    \o <<key \o "/" \o Join(nonce) \o "/" \o Join(plaintext)>>
    \o Repeat("t", TagSize - 1)

\* gcm.Open: the plaintext of a ciphertext sealed under this key and nonce
Open(key, nonce, ciphertext) ==
    IF \E pt \in Plaintexts : Seal(key, nonce, pt) = ciphertext
    THEN [err |-> OK, plain |-> CHOOSE pt \in Plaintexts : Seal(key, nonce, pt) = ciphertext]
    ELSE [err |-> "cipher: message authentication failed", plain |-> <<>>]

\* crypto.EncryptPayload: "gk1" + salt + nonce + ciphertext
EncryptPayload(masterPassword, payload) ==
    LET salt == NewSalt(SaltSize)
        key == DeriveKey(masterPassword, salt)
    IN FormatMagic \o salt \o NewNonce \o Seal(key, NewNonce, payload)

\* a decryption that looks at the signature before the length
DecryptPayload_MagicFirst(masterPassword, blob) ==
    LET minLen == Len(FormatMagic) + SaltSize + NonceSize + 1
        off == Len(FormatMagic)
        salt == SubSeq(blob, off + 1, off + SaltSize)
        nonce == SubSeq(blob, off + SaltSize + 1, off + SaltSize + NonceSize)
        ciphertext == SubSeq(blob, off + SaltSize + NonceSize + 1, Len(blob))
        opened == Open(DeriveKey(masterPassword, salt), nonce, ciphertext)
    IN IF Len(blob) < off \/ SubSeq(blob, 1, off) # FormatMagic
       THEN [err |-> ErrInvalidFormat, plain |-> <<>>]
       ELSE IF Len(blob) < minLen THEN [err |-> ErrCiphertextShort, plain |-> <<>>]
       ELSE IF opened.err # OK THEN [err |-> ErrAuthFailed, plain |-> <<>>]
       ELSE opened

\* crypto.DecryptPayload
DecryptPayload(masterPassword, blob) ==
    LET minLen == Len(FormatMagic) + SaltSize + NonceSize + 1
        off == Len(FormatMagic)
        salt == SubSeq(blob, off + 1, off + SaltSize)
        nonce == SubSeq(blob, off + SaltSize + 1, off + SaltSize + NonceSize)
        ciphertext == SubSeq(blob, off + SaltSize + NonceSize + 1, Len(blob))
        opened == Open(DeriveKey(masterPassword, salt), nonce, ciphertext)
    IN IF Len(blob) < minLen THEN [err |-> ErrCiphertextShort, plain |-> <<>>]
       ELSE IF SubSeq(blob, 1, Len(FormatMagic)) # FormatMagic
            THEN [err |-> ErrInvalidFormat, plain |-> <<>>]
       ELSE IF ciphertext = <<>> THEN [err |-> ErrInvalidFormat, plain |-> <<>>]
       ELSE IF opened.err # OK THEN [err |-> ErrAuthFailed, plain |-> <<>>]
       ELSE opened

\* DecryptPayload has not been called
NotOpened == [err |-> "not called", plain |-> <<>>]

\* the blobs given to DecryptPayload: what EncryptPayload has made, cut to
\* every length, and with one byte changed at every position
Truncations(b) == {SubSeq(b, 1, n) : n \in 0..Len(b)}

Spoil(b, i) == [b EXCEPT ![i] = "x"]

Sealed == EncryptPayload(MasterPassword, <<"p">>)

Blobs ==
    {EncryptPayload(MasterPassword, pt) : pt \in Plaintexts}
    \cup Truncations(Sealed)
    \cup {Spoil(t, 1) : t \in Truncations(Sealed) \ {<<>>}}
    \cup {Spoil(Sealed, i) : i \in DOMAIN Sealed}

OpenPasswords == {MasterPassword, "other"}

\* a call of crypto.DecryptPayload
OpenBlob ==
    /\ decrypted = NotOpened
    /\ decrypted' = DecryptPayload(givenPassword, givenBlob)
    /\ UNCHANGED <<givenPassword, givenBlob>>
    /\ UNCHANGED <<serverVars, agentVars, storeVars>>

\* base64.StdEncoding.EncodeToString
Base64(blob) == <<"base64:">> \o blob

\* ------------------------------------------------------- the local mirror
\* memory.Secret; a text is a sequence, a nil pointer is <<>>, a pointer to v is <<v>>
NewSecret(id, typ, title, payload, meta, version, at) ==
    [ID |-> id, Type |-> typ, Title |-> title, Payload |-> payload, Meta |-> meta,
     Version |-> version, UpdatedAt |-> at, CreatedAt |-> at]

ErrSecretNotFound == "secret not found"

\* time.Now() of the agent, later than the timestamps the server has sent
AgentClock == 1

\* SecretsStore.Get
Has(m, id) == \E e \in m : e.ID = id

Get(m, id) == CHOOSE e \in m : e.ID = id

\* a replacement that keeps the first entry only
ReplaceAll_FirstOnly(list) == IF list = <<>> THEN {} ELSE {list[1]}

\* SecretsStore.ReplaceAll: a new map, filled in the order of the list
ReplaceAll(list) ==
    {list[i] : i \in {j \in DOMAIN list :
                         \A k \in DOMAIN list : k > j => list[k].ID # list[j].ID}}

\* SecretsStore.ReplaceAll(append(SecretsStore.List(), local))
ReplaceAllAppend(m, local) == {e \in m : e.ID # local.ID} \cup {local}

\* SecretsStore.UpdateFromDB(id, secreType, payload, meta) at time t
UpdateFromDB(m, id, secreType, payload, meta, t) ==
    {IF e.ID # id THEN e
     ELSE [e EXCEPT !.Type = IF secreType # <<>> THEN secreType[1] ELSE @,
                    !.Payload = IF payload # <<>> THEN payload[1] ELSE @,
                    !.Meta = IF meta # <<>> THEN meta ELSE @,
                    !.UpdatedAt = t] : e \in m}

\* a removal that empties the mirror
StoreDelete_All(m, id) == {}

\* SecretsStore.Delete
StoreDelete(m, id) == {e \in m : e.ID # id}

\* base64.StdEncoding.DecodeString: the bytes of an encoding; the random
\* bytes of a bare envelope are no base64 text
Base64Decode(str) ==
    IF str # <<>> /\ Head(str) = "base64:"
    THEN [err |-> OK, blob |-> Tail(str)]
    ELSE [err |-> "payload is not valid base64", blob |-> <<>>]

\* gophkeeper get <id> --decrypt under the master password pw
GetDecrypt(m, id, pw) ==
    LET decoded == Base64Decode(Get(m, id).Payload)
    IN IF ~Has(m, id) THEN [err |-> ErrSecretNotFound, plain |-> <<>>]
       ELSE IF decoded.err # OK THEN [err |-> decoded.err, plain |-> <<>>]
       ELSE DecryptPayload(pw, decoded.blob)

\* ------------------------------------------------- what the server answers
CipherA == EncryptPayload(MasterPassword, <<"p">>)

S1 == NewSecret("id1", <<"text">>, <<"t1">>, CipherA, <<>>, 1, 0)

S1b == [S1 EXCEPT !.Title = <<"T">>, !.Version = 2]

S2 == NewSecret("id2", <<"otp">>, <<"t2">>, Base64(CipherA), << <<"m">> >>, 1, 0)

Anon == [S1 EXCEPT !.ID = ""]

Listings ==
    {<<>>, <<S1>>, <<S1b>>, <<S2>>, <<S1, S2>>, <<S1, Anon>>, <<S1, S1b>>,
     <<Anon, S2>>, <<S1, Anon, S2>>}

ServerError == "server error"

\* the answers to GET /secrets
SyncReplies ==
    {[err |-> ServerError, secrets |-> <<>>]} \cup {[err |-> OK, secrets |-> l] : l \in Listings}

\* the answers to POST /secrets
CreateReplies ==
    {[err |-> ServerError, ID |-> "", Version |-> 0],
     [err |-> OK, ID |-> "", Version |-> 1],
     [err |-> OK, ID |-> "id1", Version |-> 1],
     [err |-> OK, ID |-> "id2", Version |-> 1]}

\* ------------------------------------------------------- the command lines
AgentIDs == {"id1", "id2"}

NoFlags == [type |-> <<>>, title |-> <<>>, payload |-> <<>>, meta |-> <<>>]

\* update <id> --type --title --payload --meta: the flags that are set
UpdateFlags ==
    {NoFlags,
     [NoFlags EXCEPT !.title = << <<"T">> >>],
     [NoFlags EXCEPT !.payload = << <<"p", "q">> >>],
     [NoFlags EXCEPT !.type = << <<"otp">> >>, !.meta = << <<"m">> >>]}

\* create --type --title --payload
AgentCreateInputs ==
    {[type |-> <<"text">>, title |-> <<"t1">>, payload |-> <<"p">>, meta |-> <<>>],
     [type |-> <<"text">>, title |-> <<>>, payload |-> <<"p">>, meta |-> <<>>]}

Idle == [name |-> "idle", step |-> "", id |-> "", type |-> <<>>, title |-> <<>>,
         payload |-> <<>>, meta |-> <<>>, version |-> 0]

NoOut == [name |-> "none", err |-> OK, listed |-> <<>>]

NoSent == [op |-> "none", id |-> "", version |-> 0]

ErrNoToken == "no access_token, run: gophkeeper login"
ErrSyncFailed == "update ok, but sync failed"
ErrSaveFailed == "save secrets file"

\* the command returns an error; the mirror and its file stay as they are
Abort(name, err) ==
    /\ out' = [NoOut EXCEPT !.name = name, !.err = err]
    /\ cmd' = Idle
    /\ UNCHANGED <<mirror, disk>>

\* the command has sent a request and waits for the answer
Await(c, q) ==
    /\ cmd' = c
    /\ sent' = q
    /\ out' = NoOut
    /\ UNCHANGED <<mirror, disk>>

\* SaveSecretsToFile of the mirror m, then the message of success
Save(name, m, saved, listed) ==
    /\ mirror' = m
    /\ disk' = IF saved THEN m ELSE disk
    /\ out' = [NoOut EXCEPT !.name = name, !.err = IF saved THEN OK ELSE ErrSaveFailed,
                            !.listed = listed]
    /\ cmd' = Idle

\* a command starts: the state it starts from is recorded
Start ==
    /\ cmd = Idle
    /\ ran < MaxCommands
    /\ ran' = ran + 1
    /\ snap' = [mirror |-> mirror, disk |-> disk]

\* gophkeeper sync, up to the request
SyncStart ==
    /\ Start
    /\ IF ~creds THEN Abort("sync", ErrNoToken) /\ sent' = NoSent
       ELSE Await([Idle EXCEPT !.name = "sync", !.step = "list"], [NoSent EXCEPT !.op = "list"])
    /\ UNCHANGED creds
    /\ UNCHANGED <<serverVars, sideVars>>

ErrEmptyID == "sync: server returned secret with empty id"

\* a check of the first item only
HasEmptyID_FirstOnly(list) == list # <<>> /\ list[1].ID = ""

\* SecretSync: the loop over result.Secrets meets an item with an empty id
HasEmptyID(list) == \E i \in DOMAIN list : list[i].ID = ""

\* gophkeeper sync, from the answer on
SyncReply(reply, saved) ==
    /\ cmd.name = "sync"
    /\ IF reply.err # OK THEN Abort("sync", reply.err)
       ELSE IF HasEmptyID(reply.secrets)
       THEN Abort("sync", ErrEmptyID)
       ELSE Save("sync", ReplaceAll(reply.secrets), saved, reply.secrets)
    /\ UNCHANGED <<creds, sent, snap, ran>>
    /\ UNCHANGED <<serverVars, sideVars>>

\* gophkeeper update <id>, up to the PUT
UpdateStart(id, f) ==
    LET sec == Get(mirror, id)
        payloadPtr == IF f.payload = <<>> THEN <<>>
                      ELSE <<Base64(EncryptPayload(MasterPassword, f.payload[1]))>>
    IN /\ Start
       /\ IF ~creds THEN Abort("update", ErrNoToken) /\ sent' = NoSent
          ELSE IF ~Has(mirror, id) THEN Abort("update", ErrSecretNotFound) /\ sent' = NoSent
          ELSE IF f = NoFlags THEN Abort("update", "nothing to update") /\ sent' = NoSent
          ELSE Await([name |-> "update", step |-> "put", id |-> id, type |-> f.type,
                      title |-> f.title, payload |-> payloadPtr, meta |-> f.meta,
                      version |-> sec.Version],
                     [op |-> "update", id |-> id, version |-> sec.Version])
       /\ UNCHANGED creds
       /\ UNCHANGED <<serverVars, sideVars>>

\* gophkeeper update <id>, from the answer to the PUT to the GET
UpdatePutReply(ok) ==
    /\ cmd.name = "update"
    /\ cmd.step = "put"
    /\ IF ~ok THEN Abort("update", ServerError) /\ sent' = sent
       ELSE /\ mirror' = UpdateFromDB(mirror, cmd.id, cmd.type, cmd.title, cmd.payload,
                                      AgentClock)
            /\ cmd' = [cmd EXCEPT !.step = "sync"]
            /\ sent' = [NoSent EXCEPT !.op = "list"]
            /\ out' = NoOut
            /\ UNCHANGED disk
    /\ UNCHANGED <<creds, snap, ran>>
    /\ UNCHANGED <<serverVars, sideVars>>

\* gophkeeper update <id>, from the answer to the GET on
UpdateSyncReply(reply, saved) ==
    /\ cmd.name = "update"
    /\ cmd.step = "sync"
    /\ IF reply.err # OK THEN Abort("update", ErrSyncFailed)
       ELSE Save("update", ReplaceAll(reply.secrets), saved, reply.secrets)
    /\ UNCHANGED <<creds, sent, snap, ran>>
    /\ UNCHANGED <<serverVars, sideVars>>

\* gophkeeper delete <id>, up to the DELETE
DeleteStart(id) ==
    /\ Start
    /\ IF ~creds THEN Abort("delete", ErrNoToken) /\ sent' = NoSent
       ELSE IF ~Has(mirror, id) THEN Abort("delete", ErrSecretNotFound) /\ sent' = NoSent
       ELSE Await([Idle EXCEPT !.name = "delete", !.step = "delete", !.id = id,
                               !.version = Get(mirror, id).Version],
                  [op |-> "delete", id |-> id, version |-> Get(mirror, id).Version])
    /\ UNCHANGED creds
    /\ UNCHANGED <<serverVars, sideVars>>

\* gophkeeper delete <id>, from the answer on
DeleteReply(ok, saved) ==
    /\ cmd.name = "delete"
    /\ IF ~ok THEN Abort("delete", ServerError)
       ELSE Save("delete", StoreDelete(mirror, cmd.id), saved, <<>>)
    /\ UNCHANGED <<creds, sent, snap, ran>>
    /\ UNCHANGED <<serverVars, sideVars>>

\* gophkeeper create, up to the POST
CreateStart(in) ==
    /\ Start
    /\ IF ~creds THEN Abort("create", ErrNoToken) /\ sent' = NoSent
       ELSE IF in.type = <<>> \/ in.title = <<>> \/ in.payload = <<>>
       THEN Abort("create", "--type, --title and --payload are required") /\ sent' = NoSent
       ELSE Await([Idle EXCEPT !.name = "create", !.step = "post", !.type = <<in.type>>,
                               !.title = <<in.title>>,
                               !.payload = <<EncryptPayload(MasterPassword, in.payload)>>,
                               !.meta = in.meta],
                  [NoSent EXCEPT !.op = "create"])
    /\ UNCHANGED creds
    /\ UNCHANGED <<serverVars, sideVars>>

\* gophkeeper create, from the answer on
CreateReply(created, saved) ==
    LET local == NewSecret(created.ID, cmd.type[1], cmd.title[1], cmd.payload[1], cmd.meta,
                           created.Version, 0)
    IN /\ cmd.name = "create"
       /\ IF created.err # OK THEN Abort("create", created.err)
          ELSE IF created.ID = "" THEN Abort("create", "server returned empty id on create")
          ELSE Save("create", ReplaceAllAppend(mirror, local), saved, <<>>)
       /\ UNCHANGED <<creds, sent, snap, ran>>
       /\ UNCHANGED <<serverVars, sideVars>>

\* ------------------------------------------- the mirror under its RWMutex
Goroutines == {"w", "r1", "r2"}

Writers == {"w"}

NoProc == [pc |-> "idle", op |-> "", id |-> "", list |-> <<>>, i |-> 0, calls |-> 0,
           result |-> {}]

\* the lists the writer replaces the mirror with
StoreLists == {<<S1, S2>>, <<S1b>>, <<S1b, S2>>}

\* a lock that never waits
CanLock_Always(m) == TRUE

\* sync.RWMutex: Lock waits for the writer and for the readers
CanLock(m) == ~m.writer /\ m.readers = 0

\* sync.RWMutex: RLock waits for the writer
CanRLock(m) == ~m.writer

\* the other goroutines and the rest of the agent stay where they are
Goes(g, p) ==
    /\ procs' = [procs EXCEPT ![g] = p]
    /\ UNCHANGED <<creds, disk, cmd, out, sent, snap, ran>>
    /\ UNCHANGED <<serverVars, openVars>>

\* a goroutine calls ReplaceAll(list)
ReplaceCall(g, list) ==
    /\ procs[g].pc = "idle"
    /\ procs[g].calls < MaxReplaces
    /\ Goes(g, [procs[g] EXCEPT !.pc = "lock", !.op = "replace", !.list = list,
                                !.calls = @ + 1, !.result = {}])
    /\ UNCHANGED <<mirror, mu, committed, previous>>

\* s.mu.Lock()
ReplaceLock(g) ==
    /\ procs[g].pc = "lock"
    /\ CanLock(mu)
    /\ mu' = [mu EXCEPT !.writer = TRUE]
    /\ Goes(g, [procs[g] EXCEPT !.pc = "make"])
    /\ UNCHANGED <<mirror, committed, previous>>

\* s.secrets = make(map[string]Secret, len(secrets))
ReplaceMake(g) ==
    /\ procs[g].pc = "make"
    /\ mirror' = {}
    /\ Goes(g, [procs[g] EXCEPT !.pc = "range", !.i = 1])
    /\ UNCHANGED <<mu, committed, previous>>

\* s.secrets[sec.ID] = sec, for the next element of the list
ReplaceStore(g) ==
    LET sec == procs[g].list[procs[g].i]
    IN /\ procs[g].pc = "range"
       /\ procs[g].i <= Len(procs[g].list)
       /\ mirror' = {e \in mirror : e.ID # sec.ID} \cup {sec}
       /\ Goes(g, [procs[g] EXCEPT !.i = @ + 1])
       /\ UNCHANGED <<mu, committed, previous>>

\* the deferred s.mu.Unlock()
ReplaceUnlock(g) ==
    /\ procs[g].pc = "range"
    /\ procs[g].i > Len(procs[g].list)
    /\ mu' = [mu EXCEPT !.writer = FALSE]
    /\ previous' = committed
    /\ committed' = mirror
    /\ Goes(g, [procs[g] EXCEPT !.pc = "idle", !.list = <<>>, !.i = 0])
    /\ UNCHANGED mirror

\* a goroutine calls Get(id) or List()
ReadCall(g, op, id) ==
    /\ procs[g].pc = "idle"
    /\ op = "list" => id = ""
    /\ Goes(g, [procs[g] EXCEPT !.pc = "rlock", !.op = op, !.id = id, !.result = {}])
    /\ UNCHANGED <<mirror, mu, committed, previous>>

\* s.mu.RLock()
ReadRLock(g) ==
    /\ procs[g].pc = "rlock"
    /\ CanRLock(mu)
    /\ mu' = [mu EXCEPT !.readers = @ + 1]
    /\ Goes(g, [procs[g] EXCEPT !.pc = "read"])
    /\ UNCHANGED <<mirror, committed, previous>>

\* what a reader gets of the content m: the entry of Get, the entries of List
View(m, op, id) == IF op = "get" THEN {e \in m : e.ID = id} ELSE m

\* s.secrets[id], or the loop over s.secrets
ReadRead(g) ==
    /\ procs[g].pc = "read"
    /\ Goes(g, [procs[g] EXCEPT !.pc = "runlock",
                                !.result = View(mirror, procs[g].op, procs[g].id)])
    /\ UNCHANGED <<mirror, mu, committed, previous>>

\* the deferred s.mu.RUnlock()
ReadRUnlock(g) ==
    /\ procs[g].pc = "runlock"
    /\ mu' = [mu EXCEPT !.readers = @ - 1]
    /\ Goes(g, [procs[g] EXCEPT !.pc = "idle"])
    /\ UNCHANGED <<mirror, committed, previous>>

\* ============================================================ specifications
\* the state after construction, over the users registered so far
InitWith(us, reg) ==
    /\ now = 0
    /\ rotateRefresh \in BOOLEAN
    /\ reuseDetection \in BOOLEAN
    /\ users = us
    /\ sessions = <<>>
    /\ calls = EmptyBag
    /\ last = NoCall
    /\ registered = reg
    /\ rotated = {}
    /\ hdr = <<>>
    /\ secrets = {}
    /\ inserted = <<>>
    /\ reqs = EmptyBag
    /\ resp = NoResp
    /\ wins = [k \in (1..MaxSecrets) \X (0..MaxVersion) |-> 0]
    /\ top = [id \in 1..MaxSecrets |-> 0]
    /\ deleted = {}

\* the agent before its first command
InitAgent ==
    /\ mirror = {}
    /\ disk = {}
    /\ cmd = Idle
    /\ out = NoOut
    /\ sent = NoSent
    /\ snap = [mirror |-> {}, disk |-> {}]
    /\ ran = 0

\* the store before its first call, and no blob given to DecryptPayload
InitSide ==
    /\ mu = [writer |-> FALSE, readers |-> 0]
    /\ procs = [g \in Goroutines |-> NoProc]
    /\ committed = {}
    /\ previous = {}
    /\ givenPassword = MasterPassword
    /\ givenBlob = <<>>
    /\ decrypted = NotOpened

Init == InitWith(<<>>, {}) /\ creds = FALSE /\ InitAgent /\ InitSide

\* a password and a blob, before DecryptPayload is called on them
InitOpen ==
    /\ InitWith(<<>>, {})
    /\ creds = FALSE
    /\ InitAgent
    /\ mu = [writer |-> FALSE, readers |-> 0]
    /\ procs = [g \in Goroutines |-> NoProc]
    /\ committed = {}
    /\ previous = {}
    /\ givenPassword \in OpenPasswords
    /\ givenBlob \in Blobs
    /\ decrypted = NotOpened

\* the configuration the server is started with when the session policy is
\* not under study
InitDefault ==
    /\ Init
    /\ rotateRefresh
    /\ reuseDetection

\* the accounts of the users of the secret store, as Register leaves them
SeedAccounts == <<[email |-> EmailPlain, password |-> PassGood],
                  [email |-> EmailOther, password |-> PassGood]>>

SeedUsers ==
    [i \in DOMAIN SeedAccounts |->
        [email |-> TrimSpace(ToLower(SeedAccounts[i].email)),
         password_hash |-> HashPassword(TrimSpace(SeedAccounts[i].password))]]

SeedRegistered ==
    {[email |-> SeedAccounts[i].email, password |-> SeedAccounts[i].password, id |-> i] :
        i \in DOMAIN SeedAccounts}

\* the server once the users of the secret store have registered
InitRegistered ==
    /\ InitWith(SeedUsers, SeedRegistered)
    /\ rotateRefresh
    /\ reuseDetection
    /\ creds = FALSE
    /\ InitAgent
    /\ InitSide

\* the agent, logged in or not, with the server behind it
InitCommands ==
    /\ InitWith(SeedUsers, SeedRegistered)
    /\ rotateRefresh
    /\ reuseDetection
    /\ creds \in BOOLEAN
    /\ InitAgent
    /\ InitSide

\* Register and Login over every input
NextLogin ==
    \/ \E e \in Emails, p \in Passwords : Register(e, p) /\ UNCHANGED <<guardVars, clientVars>>
    \/ \E e \in Emails, p \in Passwords :
          Login(e, p) /\ Len(sessions') <= MaxLogins /\ UNCHANGED <<guardVars, clientVars>>

SpecLogin == InitDefault /\ [][NextLogin]_vars

\* the refresh sessions of registered users
NextRefresh ==
    \/ \E e \in SessionEmails, p \in SessionPasswords : Register(e, p) /\ UNCHANGED <<guardVars, clientVars>>
    \/ \E e \in SessionEmails, p \in SessionPasswords : Login(e, p) /\ UNCHANGED <<guardVars, clientVars>>
    \/ \E tok \in Presentable : RefreshBegin(tok) /\ UNCHANGED <<guardVars, clientVars>>
    \/ \E c \in BagToSet(calls) : RefreshRevokeAll(c) /\ UNCHANGED <<guardVars, clientVars>>
    \/ \E c \in BagToSet(calls) : RefreshCreate(c) /\ UNCHANGED <<guardVars, clientVars>>
    \/ \E c \in BagToSet(calls) : RefreshRevokeAndReplace(c) /\ UNCHANGED <<guardVars, clientVars>>
    \/ Tick(MaxTime) /\ UNCHANGED <<guardVars, clientVars>>

SpecRefresh == Init /\ [][NextRefresh]_vars

\* the secret store, behind the authentication: the user id is the one the
\* request context carries
NextSecrets ==
    \/ \E u \in SecretUsers, in \in CreateInputs : SecretCreate(u, in) /\ UNCHANGED <<guardVars, clientVars>>
    \/ \E u \in SecretUsers : SecretList(u) /\ UNCHANGED <<guardVars, clientVars>>
    \/ \E op \in {"update", "delete"}, u \in SecretUsers, id \in 1..MaxSecrets,
          ver \in 0..MaxVersion, data \in UpdateInputs :
          SecretMutate(op, u, id, ver, data) /\ UNCHANGED <<guardVars, clientVars>>
    \/ \E q \in BagToSet(reqs) : SecretProbe(q) /\ UNCHANGED <<guardVars, clientVars>>
    \/ Tick(MaxStoreTime) /\ UNCHANGED <<guardVars, clientVars>>

SpecSecrets == InitRegistered /\ [][NextSecrets]_vars

\* the headers and the bodies of the exploration of the authentication
GuardCreateInputs == {in \in CreateInputs : in.type = <<"text">> /\ in.title # <<>>}

GuardUpdateInputs == {[NoData EXCEPT !.Title = << <<"t2">> >>]}

\* the secret store as the clients reach it, through the protected group
NextGuard ==
    \/ \E op \in {"create", "list", "update", "delete"}, h \in Headers : AuthReject(op, h)
    \/ \E h \in Headers, in \in GuardCreateInputs : GuardedCreate(h, in)
    \/ \E h \in Headers : GuardedList(h)
    \/ \E op \in {"update", "delete"}, h \in Headers, id \in 1..MaxGuarded,
          ver \in 0..MaxVersion, data \in GuardUpdateInputs :
          GuardedMutate(op, h, id, ver, data)
    \/ \E q \in BagToSet(reqs) : SecretProbe(q) /\ hdr' = <<>> /\ UNCHANGED clientVars
    \/ Tick(MaxStoreTime) /\ hdr' = <<>> /\ UNCHANGED clientVars

SpecGuard == InitRegistered /\ [][NextGuard]_vars

\* the validation policy of the secret store, behind the authentication
PolicyHeaders == {<<>>, Bearer("u1"), Bearer("u2"), Bearer("nil")}

NextPolicy ==
    \/ \E op \in {"create", "list", "update", "delete"}, h \in PolicyHeaders : AuthReject(op, h)
    \/ \E h \in PolicyHeaders, in \in CreateInputs : GuardedCreate(h, in)
    \/ \E h \in PolicyHeaders : GuardedList(h)
    \/ \E op \in {"update", "delete"}, h \in PolicyHeaders, id \in 1..MaxGuarded,
          ver \in 0..MaxVersion, data \in GuardedUpdateInputs :
          GuardedMutate(op, h, id, ver, data)
    \/ \E q \in BagToSet(reqs) : SecretProbe(q) /\ hdr' = <<>> /\ UNCHANGED clientVars

SpecPolicy == InitRegistered /\ [][NextPolicy]_vars

\* the commands of the agent, against every answer of the server
NextCommands ==
    \/ SyncStart
    \/ \E reply \in SyncReplies, saved \in BOOLEAN : SyncReply(reply, saved)
    \/ \E id \in AgentIDs, f \in UpdateFlags : UpdateStart(id, f)
    \/ \E ok \in BOOLEAN : UpdatePutReply(ok)
    \/ \E reply \in SyncReplies, saved \in BOOLEAN : UpdateSyncReply(reply, saved)
    \/ \E id \in AgentIDs : DeleteStart(id)
    \/ \E ok \in BOOLEAN, saved \in BOOLEAN : DeleteReply(ok, saved)
    \/ \E in \in AgentCreateInputs : CreateStart(in)
    \/ \E created \in CreateReplies, saved \in BOOLEAN : CreateReply(created, saved)

SpecCommands == InitCommands /\ [][NextCommands]_vars

\* the goroutines on the mirror: a writer that replaces it, readers that
\* get or list
NextStore ==
    \/ \E g \in Writers, list \in StoreLists : ReplaceCall(g, list)
    \/ \E g \in Writers : ReplaceLock(g)
    \/ \E g \in Writers : ReplaceMake(g)
    \/ \E g \in Writers : ReplaceStore(g)
    \/ \E g \in Writers : ReplaceUnlock(g)
    \/ \E g \in Goroutines \ Writers, id \in AgentIDs : ReadCall(g, "get", id)
    \/ \E g \in Goroutines \ Writers : ReadCall(g, "list", "")
    \/ \E g \in Goroutines \ Writers : ReadRLock(g)
    \/ \E g \in Goroutines \ Writers : ReadRead(g)
    \/ \E g \in Goroutines \ Writers : ReadRUnlock(g)

SpecStore == InitRegistered /\ [][NextStore]_vars

NextOpen == OpenBlob

SpecOpen == InitOpen /\ [][NextOpen]_vars

Next ==
    NextLogin \/ NextRefresh \/ NextSecrets \/ NextGuard \/ NextPolicy \/ NextCommands
    \/ NextStore \/ NextOpen

Spec == Init /\ [][Next]_vars

\* ==================================================================== claims
\* the session row a refresh token belongs to, by its hash
SessionOf(tok) ==
    {i \in DOMAIN sessions : sessions[i].refresh_hash = HashRefreshToken(tok)}

\* C1: with rotation enabled, once a Refresh of token r has succeeded the
\* session of r is revoked, and every Refresh of r that begins afterwards
\* is answered Unauthorized, never with a token pair, and never reaches the
\* code that mints one.
C1_RotatedTokenStaysDead ==
    rotateRefresh =>
        /\ \A tok \in rotated :
              /\ SessionOf(tok) # {}
              /\ \A i \in SessionOf(tok) : sessions[i].revoked_at # NullTime
        /\ (last.op = "refresh" /\ last.late) =>
              /\ last.err = ErrUnauthorized
              /\ last.access = NoAccess
              /\ last.refresh = <<>>
        /\ \A c \in BagToSet(calls) : c.late => c.pc = "revokeAll"

\* a Refresh of an already rotated token has just been refused
C1_Witness ==
    /\ rotateRefresh
    /\ last.op = "refresh"
    /\ last.late
    /\ last.token \in rotated
    /\ last.err = ErrUnauthorized

\* the calls a step starts and the calls a step ends
Started == {c \in BagToSet(calls') : CopiesIn(c, calls') > CopiesIn(c, calls)}
Finished == {c \in BagToSet(calls) : CopiesIn(c, calls') < CopiesIn(c, calls)}

\* a Refresh call enters the service in this step
Begins(tok) ==
    \/ /\ calls' = calls
       /\ last'.op = "refresh"
       /\ last'.token = tok
    \/ /\ BagCardinality(calls') > BagCardinality(calls)
       /\ \E c \in Started : c.token = tok

\* C2: a Refresh that presents the token of an already revoked, unexpired
\* session: with reuse detection enabled it goes on to revoke every session of
\* the owning user that is not yet revoked and is answered Unauthorized; with
\* reuse detection disabled it is answered Unauthorized at once and no session
\* changes.
C2_ReuseStep ==
    /\ \A i \in DOMAIN sessions :
          (/\ sessions[i].revoked_at # NullTime
           /\ sessions[i].expires_at > now
           /\ \E tok \in Presentable :
                 /\ HashRefreshToken(TrimSpace(tok)) = sessions[i].refresh_hash
                 /\ Begins(TrimSpace(tok)))
          => IF reuseDetection
             THEN /\ BagCardinality(calls') > BagCardinality(calls)
                  /\ \A c \in Started : c.pc = "revokeAll" /\ c.userID = sessions[i].user_id
             ELSE /\ calls' = calls
                  /\ last'.err = ErrUnauthorized
                  /\ last'.access = NoAccess
                  /\ last'.refresh = <<>>
                  /\ sessions' = sessions
    /\ \A c \in Finished :
          c.pc = "revokeAll" =>
              /\ reuseDetection
              /\ last'.op = "refresh"
              /\ last'.err = ErrUnauthorized
              /\ last'.access = NoAccess
              /\ last'.refresh = <<>>
              /\ \A i \in DOMAIN sessions :
                    sessions[i].user_id = c.userID => sessions'[i].revoked_at # NullTime

\* C2: every step of the server treats a reused refresh token as C2_ReuseStep says
C2_ReuseDetection == [][C2_ReuseStep]_vars

\* a reused token has just been refused and a session stands revoked without a
\* replacement, as only the mass revoke leaves it
C2_Witness ==
    /\ reuseDetection
    /\ last.op = "refresh"
    /\ last.err = ErrUnauthorized
    /\ \E i \in SessionOf(last.token) : sessions[i].replaced_by # NullID
    /\ \E i \in DOMAIN sessions :
          sessions[i].revoked_at # NullTime /\ sessions[i].replaced_by = NullID

\* the form in which the service stores and looks up an email
Normal(e) == TrimSpace(ToLower(e))

\* the Register calls that succeeded for the email of a Login
RegisteredAs(e) == {r \in registered : Normal(r.email) = Normal(e)}

\* C8: a Login whose inputs are not blank is answered InvalidCredentials, with
\* no token, both when its email is not registered and when its email is
\* registered and its password is not the registered one.
C8_LoginHidesWhichFailed ==
    (/\ last.op = "login"
     /\ Normal(last.email) # <<>>
     /\ TrimSpace(last.password) # <<>>
     /\ \/ RegisteredAs(last.email) = {}
        \/ \E r \in RegisteredAs(last.email) : TrimSpace(r.password) # TrimSpace(last.password))
    => /\ last.err = ErrInvalidCredentials
       /\ last.access = NoAccess
       /\ last.refresh = <<>>

\* a Login with the email of a registered user and another password was refused
C8_Witness ==
    /\ last.op = "login"
    /\ last.found
    /\ RegisteredAs(last.email) # {}
    /\ \A r \in RegisteredAs(last.email) : TrimSpace(r.password) # TrimSpace(last.password)
    /\ TrimSpace(last.password) # <<>>
    /\ last.err = ErrInvalidCredentials

\* C9 as stated: a Login whose email fails the pattern or whose password is
\* shorter than 8 characters is answered InvalidInput before any user lookup.
C9_LoginValidatesAsRegister ==
    (/\ last.op = "login"
     /\ \/ ~MatchEmail(Normal(last.email))
        \/ Len(TrimSpace(last.password)) < MinPasswordLen)
    => /\ last.err = ErrInvalidInput
       /\ ~last.lookedUp

\* C9: Login is answered InvalidInput, before any user lookup, exactly when
\* its email or its password is empty once trimmed; an email that fails the
\* pattern and a password shorter than 8 characters are looked up and
\* answered InvalidCredentials.
C9_LoginRejectsOnlyBlank ==
    last.op = "login" =>
        LET blank == Normal(last.email) = <<>> \/ TrimSpace(last.password) = <<>>
        IN /\ last.err = ErrInvalidInput <=> blank
           /\ last.lookedUp <=> ~blank
           /\ (/\ ~blank
               /\ \/ ~MatchEmail(Normal(last.email))
                  \/ Len(TrimSpace(last.password)) < MinPasswordLen)
              => last.err = ErrInvalidCredentials

\* a Login with a registered email and a password too short for Register was
\* looked up and refused for its credentials
C9_Witness ==
    /\ last.op = "login"
    /\ Len(last.password) < MinPasswordLen
    /\ TrimSpace(last.password) # <<>>
    /\ last.lookedUp
    /\ last.found
    /\ last.err = ErrInvalidCredentials

\* the access token of a Login is valid now and names user id
ValidTokenOf(access, id) ==
    /\ access.alg = "HS256"
    /\ access.key = SigningKey
    /\ access.iss = Issuer
    /\ access.aud = <<Audience>>
    /\ access.iat <= now
    /\ access.exp >= now
    /\ id # NullID
    /\ ParseUUID(access.sub) = id

\* what C10 promises of a Login with the email and password of an earlier Register
LoginAfterRegister ==
    last.op = "login" =>
        \A r \in registered :
            (r.email = last.email /\ r.password = last.password)
            => /\ last.err = OK
               /\ ValidTokenOf(last.access, r.id)
               /\ last.refresh # <<>>

Mutation(r) == r.op \in {"update", "delete"}

\* the response answers a request on a row that was inserted for its caller
OnOwnRow(r) ==
    /\ r.secretID \in 1..Len(inserted)
    /\ inserted[r.secretID] = r.userID

\* the response answers a request on a row that was inserted for another user
OnForeignRow(r) ==
    /\ r.secretID \in 1..Len(inserted)
    /\ inserted[r.secretID] # r.userID

\* the requests whose gated statement affected no row in this step
Lost == {q \in BagToSet(reqs') : CopiesIn(q, reqs') > CopiesIn(q, reqs)}

\* C3: of the Update and Delete requests that carry the same expected version
\* v of a secret, exactly one succeeds: a request of the owner that carries the
\* version the row stands at never loses, the request that succeeds leaves no
\* row at that version, and no (secret, version) is ever won twice.
C3_Step ==
    /\ \A k \in DOMAIN wins : wins'[k] <= 1
    /\ \A q \in Lost :
          ~ \E row \in secrets :
                row.user_id = q.userID /\ row.id = q.secretID /\ row.version = q.version
    /\ (Mutation(resp') /\ resp'.status = 204) =>
          /\ \E row \in secrets :
                /\ row.user_id = resp'.userID
                /\ row.id = resp'.secretID
                /\ row.version = resp'.version
          /\ ~ \E row \in secrets' :
                row.id = resp'.secretID /\ row.version = resp'.version
          /\ wins'[<<resp'.secretID, resp'.version>>] = 1

\* C3: in every step, a version of a secret is won by exactly one request
C3_ExactlyOneWins == [][C3_Step]_vars

\* a request of the owner has lost on a version that another request had won
C3_Witness ==
    /\ Mutation(resp)
    /\ resp.step = "probe"
    /\ OnOwnRow(resp)
    /\ wins[<<resp.secretID, resp.version>>] = 1

\* a request of the owner that lost on a version another request has won
Loser(r) ==
    /\ Mutation(r)
    /\ r.step = "probe"
    /\ OnOwnRow(r)
    /\ wins[<<r.secretID, r.version>>] >= 1

\* C4 as stated: every other attempt that carries the version a request has
\* won receives Conflict.
C4_LosersGetConflict ==
    Loser(resp) => resp.err = ErrConflict /\ resp.status = 409

\* C4: every other attempt that carries the version a request has won fails:
\* it receives Conflict (409) if the secret has not been deleted when its
\* existence probe runs, and NotFound (404) if it has, as when the winning
\* attempt is the Delete.
C4_LosersGetConflictOrNotFound ==
    Loser(resp) =>
        IF resp.secretID \in deleted
        THEN resp.err = ErrNotFound /\ resp.status = 404
        ELSE resp.err = ErrConflict /\ resp.status = 409

\* an Update that carried the version a Delete had won was answered NotFound
C4_Witness ==
    /\ Loser(resp)
    /\ resp.op = "update"
    /\ resp.secretID \in deleted
    /\ resp.status = 404

\* C5: an Update or Delete whose gated statement affects no row is answered
\* Conflict (409) if a row with its (user, id) exists and NotFound (404) if
\* none does, and these answers are given in no other case; so an Update of
\* the owner that carries a consumed version of a secret still stored is
\* answered 409, and a Delete of a secret already deleted is answered 404.
C5_ConflictOrNotFound ==
    /\ (Mutation(resp) /\ resp.step = "probe") =>
          IF \E row \in secrets : row.user_id = resp.userID /\ row.id = resp.secretID
          THEN resp.err = ErrConflict /\ resp.status = 409
          ELSE resp.err = ErrNotFound /\ resp.status = 404
    /\ (Mutation(resp) /\ resp.status \in {404, 409}) => resp.step = "probe"
    /\ (Loser(resp) /\ resp.op = "update" /\ resp.secretID \notin deleted) => resp.status = 409
    /\ (resp.op = "delete" /\ resp.secretID \in deleted /\ resp.status # 204) => resp.status = 404

\* a Delete of a secret that its owner had already deleted was answered 404
C5_Witness ==
    /\ resp.op = "delete"
    /\ OnOwnRow(resp)
    /\ resp.secretID \in deleted
    /\ resp.status = 404

\* C6: List returns only rows of the calling user; an Update or a Delete on a
\* row of another user never succeeds and never reports a conflict, its
\* existence probe answers NotFound; and a row leaves the table or changes
\* only in a step that answers 204 to a request of its own user for it.
C6_Step ==
    /\ (resp'.op = "list" /\ resp'.status = 200) =>
          \A i \in DOMAIN resp'.secrets :
              /\ resp'.secrets[i].id \in 1..Len(inserted)
              /\ inserted[resp'.secrets[i].id] = resp'.userID
    /\ (Mutation(resp') /\ OnForeignRow(resp')) =>
          /\ resp'.status \notin {204, 409}
          /\ resp'.step = "probe" => resp'.err = ErrNotFound /\ resp'.status = 404
    /\ \A row \in secrets :
          row \notin secrets' =>
              /\ Mutation(resp')
              /\ resp'.status = 204
              /\ resp'.userID = row.user_id
              /\ resp'.secretID = row.id

\* C6: in every step, a user's rows are seen and changed by that user alone
C6_OwnershipIsolation == [][C6_Step]_vars

\* a request on a stored row of another user was answered NotFound
C6_Witness ==
    /\ Mutation(resp)
    /\ OnForeignRow(resp)
    /\ \E row \in secrets : row.id = resp.secretID
    /\ resp.err = ErrNotFound
    /\ resp.status = 404

\* C7: a row enters the table at version 1, and the version of a stored row
\* changes only by becoming one greater, which it does in exactly the steps
\* that answer 204 to an Update of that row.
C7_Step ==
    /\ \A row \in secrets' :
          (~ \E old \in secrets : old.id = row.id) =>
              /\ row.version = 1
              /\ resp'.op = "create"
              /\ resp'.version = 1
    /\ \A old \in secrets, row \in secrets' :
          old.id = row.id =>
              LET updated == /\ resp'.op = "update"
                             /\ resp'.status = 204
                             /\ resp'.secretID = old.id
              IN /\ updated => row.version = old.version + 1
                 /\ ~updated => row = old

\* C7: in every step, a version starts at 1 and moves only by a successful Update's +1
C7_VersionCounts == [][C7_Step]_vars

\* an Update has just taken a row from version 1 to version 2
C7_Witness ==
    /\ resp.op = "update"
    /\ resp.status = 204
    /\ resp.version = 1
    /\ \E row \in secrets : row.id = resp.secretID /\ row.version = 2

\* ---------------------------------------------------------------- C11
\* the header has the form `Bearer <token>`: the scheme in any case, a
\* space, and a token that is not blank
BearerForm(h) ==
    LET t == TrimSpace(h)
    IN \E i \in 1..Len(t) :
           /\ t[i] = " "
           /\ EqualFold(SubSeq(t, 1, i - 1), BearerScheme)
           /\ TrimSpace(SubSeq(t, i + 1, Len(t))) # <<>>

Routes == {"create", "list", "update", "delete"}

\* the step received a request of a protected route
Received == resp'.op \in Routes /\ resp'.step # "probe"

C11_Step ==
    (Received /\ ~BearerForm(hdr')) =>
        /\ resp'.step = "auth"
        /\ resp'.status = 401
        /\ UNCHANGED <<users, sessions, calls, secrets, reqs>>
        /\ UNCHANGED <<inserted, wins, top, deleted, registered, rotated>>

\* C11: a request of POST /secrets, GET /secrets, PUT /secrets/{id} or
\* DELETE /secrets/{id} whose Authorization header is missing or not of the
\* form `Bearer <token>` is answered 401 by the middleware, its handler does
\* not run, and no table changes.
C11_NoHandlerWithoutBearer == [][C11_Step]_vars

\* a PUT with a Basic header is answered 401 while the table holds a row
C11_Witness ==
    /\ resp.step = "auth"
    /\ resp.op = "update"
    /\ resp.status = 401
    /\ hdr = <<"B", "a", "s", "i", "c", " ", "u1">>
    /\ secrets # {}

\* ---------------------------------------------------------------- C12
\* the subject of the claims c is the text of a user id
SubjectParses(c) == \E i \in 0..MaxUsers : UUIDString(i) = TrimSpace(c.sub)

SubjectOf(c) == CHOOSE i \in 0..MaxUsers : UUIDString(i) = TrimSpace(c.sub)

\* signed with HS256 under the server key, with the configured issuer, an
\* audience entry equal to the server's audience and a subject that parses
WellSigned(c) ==
    /\ c.alg = "HS256"
    /\ c.key = SigningKey
    /\ c.iss = Issuer
    /\ \E i \in DOMAIN c.aud : c.aud[i] = Audience
    /\ SubjectParses(c)

\* the token a header presents, if it has the form `Bearer <token>`
Presented(h) ==
    IF BearerForm(h) THEN Decode(TrimSpace(SplitN2(TrimSpace(h))[2])) ELSE NoAccess

\* the headers a handler may run for, and the user it then works for, when
\* every token must carry an expiry in the future
StrictlyAdmitted ==
    [t \in 0..MaxStoreTime |-> [h \in Headers |->
        LET c == Presented(h)
        IN [ok |-> WellSigned(c) /\ c.exp > t,
            userID |-> IF SubjectParses(c) THEN SubjectOf(c) ELSE NullID]]]

C12_StrictStep ==
    Received =>
        IF StrictlyAdmitted[now][hdr'].ok
        THEN resp'.step # "auth" /\ resp'.userID = StrictlyAdmitted[now][hdr'].userID
        ELSE resp'.step = "auth" /\ resp'.status = 401

Admitted ==
    [t \in 0..MaxStoreTime |-> [h \in Headers |->
        LET c == Presented(h)
        IN [ok |-> WellSigned(c) /\ (c.exp = NullTime \/ c.exp > t),
            userID |-> IF SubjectParses(c) THEN SubjectOf(c) ELSE NullID]]]

C12_Step ==
    Received =>
        IF Admitted[now][hdr'].ok
        THEN resp'.step # "auth" /\ resp'.userID = Admitted[now][hdr'].userID
        ELSE resp'.step = "auth" /\ resp'.status = 401

TypeOffends(data) == data.Type # <<>> /\ TrimSpace(data.Type[1]) \notin AllowedTypes

MetaOffends(data) == data.Meta # <<>> /\ Len(data.Meta[1]) > MaxMetaBytes

PayloadOffends(data) == data.Payload # <<>> /\ Len(data.Payload[1]) > MaxPayloadBytes

C13_Step ==
    \A h \in PolicyHeaders, id \in 1..MaxGuarded, ver \in 0..MaxVersion,
       data \in GuardedUpdateInputs :
        (/\ Verdict[now][h].ok
         /\ \E r \in secrets :
                r.id = id /\ r.user_id = Verdict[now][h].userID /\ r.version = ver
         /\ GuardedMutate("update", h, id, ver, data)) =>
            /\ (TypeOffends(data) \/ MetaOffends(data)) =>
                   resp'.err = ErrInvalidInput /\ secrets' = secrets
            /\ (PayloadOffends(data) /\ ~TypeOffends(data) /\ ~MetaOffends(data)) =>
                   resp'.err = ErrPayloadTooLarge /\ secrets' = secrets

\* C13 as stated: an Update of a row of the caller, at its current version,
\* that carries a type outside the allow-list or a meta longer than
\* MaxMetaBytes is rejected with InvalidInput, one that carries a payload
\* longer than MaxPayloadBytes with PayloadTooLarge, and the row keeps its
\* fields and version.
C13_UpdateIsValidated == [][C13_Step]_vars

\* ---------------------------------------------------------------- C14
C14_Step ==
    (Received /\ Verdict[now][hdr'].ok /\ Verdict[now][hdr'].userID = NullID) =>
        /\ resp'.step = "service"
        /\ resp'.status >= 400
        /\ UNCHANGED <<secrets, inserted, reqs>>

IDsOf(m) == {e.ID : e \in m}

Returned == {out.listed[i].ID : i \in DOMAIN out.listed}

\* C15: after a successful Sync the ids held in the mirror are exactly the
\* ids the server returned: every returned secret is present, and no entry
\* that was in the mirror before and is not in the response remains.
C15_SyncMirrorsTheResponse ==
    (out.name = "sync" /\ out.err = OK) => IDsOf(mirror) = Returned

\* a Sync has succeeded on a response that holds a secret and lacks one the
\* mirror held before
C15_Witness ==
    /\ out.name = "sync"
    /\ out.err = OK
    /\ out.listed # <<>>
    /\ \E e \in snap.mirror : e.ID \notin Returned

\* ---------------------------------------------------------------- C16
\* C16 as stated: when the server has accepted the Update and the List that
\* follows fails, the command reports "update ok, but sync failed" and the
\* mirror, in memory and in its file, is what it was when the command began.
C16_FailedSyncLeavesMirror ==
    (out.name = "update" /\ out.err = ErrSyncFailed) =>
        mirror = snap.mirror /\ disk = snap.disk

\* ---------------------------------------------------------------- C17
\* the server has answered the Delete of the command with success
Deleted == out'.name = "delete" /\ out'.err \in {OK, ErrSaveFailed}

C17_Step ==
    /\ (cmd'.name = "delete") =>
           /\ mirror' = mirror /\ disk' = disk
           /\ \E e \in mirror : /\ e.ID = cmd'.id
                                /\ sent' = [op |-> "delete", id |-> e.ID, version |-> e.Version]
    /\ (cmd.name = "delete") =>
           IF Deleted
           THEN /\ mirror' = {e \in mirror : e.ID # cmd.id}
                /\ disk' \in {mirror', disk}
                /\ out'.err = OK => disk' = mirror'
           ELSE mirror' = mirror /\ disk' = disk
    /\ (out'.name = "delete" /\ ~Deleted) => mirror' = snap'.mirror /\ disk' = snap'.disk

\* C17: the Delete flow sends the Delete with the version the mirror holds
\* and leaves the mirror and its file alone until the server has answered;
\* on success it removes the entry and persists the mirror; when the secret
\* is absent from the mirror or the server answers with an error, the mirror
\* and its file are what they were.
C17_DeleteAfterServerSuccess == [][C17_Step]_vars

\* a Delete of an entry of version 2 has been refused by the server, and the
\* mirror still holds it
C17_Witness ==
    /\ out.name = "delete"
    /\ out.err = ServerError
    /\ sent.op = "delete"
    /\ sent.version = 2
    /\ \E e \in mirror : e.ID = sent.id /\ e.Version = 2
    /\ disk # {}

\* ---------------------------------------------------------------- C18
\* the blobs EncryptPayload produces, as they are and in base64
Ciphertexts ==
    {EncryptPayload(MasterPassword, pt) : pt \in Plaintexts}
    \cup {Base64(EncryptPayload(MasterPassword, pt)) : pt \in Plaintexts}

\* the values the user types on the command lines
UserTexts ==
    Plaintexts
    \cup {in.title : in \in AgentCreateInputs} \cup {in.type : in \in AgentCreateInputs}
    \cup {f.title[1] : f \in {g \in UpdateFlags : g.title # <<>>}}
    \cup {f.type[1] : f \in {g \in UpdateFlags : g.type # <<>>}}
    \cup {f.meta[1] : f \in {g \in UpdateFlags : g.meta # <<>>}}

\* C18 as stated: at every point of the Create, Update, Delete and Sync
\* flows the payload of every mirror entry is ciphertext, never a plaintext
\* the user supplied.
C18_MirrorPayloadIsCiphertext ==
    \A e \in mirror : e.Payload \in Ciphertexts /\ e.Payload \notin UserTexts

\* ---------------------------------------------------------------- C19
\* the replacements under way: called and not yet returned
Replacing == {g \in Writers : procs[g].pc # "idle"}

\* the complete contents a reader may meet: the one before the replacement
\* under way, and the one after it
Snapshots == {committed} \cup {ReplaceAll(procs[g].list) : g \in Replacing}

C19_Step ==
    \A g \in Goroutines \ Writers :
        (procs[g].pc = "read" /\ procs'[g].pc = "runlock")
            => \E m \in Snapshots :
                   procs'[g].result = View(m, procs[g].op, procs[g].id)

\* C19: a reader of the mirror (Get or List) that runs while a wholesale
\* replacement is under way reads the complete content of before the
\* replacement or the complete content of after it, never a mixture of both
C19_ReadersSeeWholeSnapshots == [][C19_Step]_vars

\* a List has read the whole content of before a replacement that is waiting
\* for the lock and that will change this content
C19_Witness ==
    \E r \in Goroutines \ Writers, w \in Writers :
        /\ procs[w].pc = "lock"
        /\ procs[r].pc = "runlock"
        /\ procs[r].op = "list"
        /\ committed # {}
        /\ procs[r].result = committed
        /\ ReplaceAll(procs[w].list) # committed

\* ---------------------------------------------------------------- C20
\* the blob is shorter than the signature, a salt, a nonce and one byte
TooShort(b) == Len(b) < Len(FormatMagic) + SaltSize + NonceSize + 1

\* the first three bytes of the blob are not the signature
BadMagic(b) == Len(b) < Len(FormatMagic) \/ SubSeq(b, 1, Len(FormatMagic)) # FormatMagic

\* the blob, long enough, is not a ciphertext sealed under the key that the
\* password and the blob's salt give and under the blob's nonce
Unauthentic(pw, b) ==
    LET off == Len(FormatMagic)
        salt == SubSeq(b, off + 1, off + SaltSize)
        nonce == SubSeq(b, off + SaltSize + 1, off + SaltSize + NonceSize)
        ciphertext == SubSeq(b, off + SaltSize + NonceSize + 1, Len(b))
    IN \A pt \in Plaintexts : Seal(DeriveKey(pw, salt), nonce, pt) # ciphertext

\* C20: DecryptPayload classifies a failing blob in a fixed order: a blob
\* shorter than 3 + 16 + 12 + 1 bytes fails with ErrCiphertextShort whatever
\* its content; otherwise a blob whose first three bytes are not "gk1" fails
\* with ErrInvalidFormat; otherwise a blob that fails authentication fails
\* with ErrAuthFailed
C20_FailuresInFixedOrder ==
    decrypted # NotOpened =>
        IF TooShort(givenBlob) THEN decrypted.err = ErrCiphertextShort
        ELSE IF BadMagic(givenBlob) THEN decrypted.err = ErrInvalidFormat
        ELSE IF Unauthentic(givenPassword, givenBlob) THEN decrypted.err = ErrAuthFailed
        ELSE decrypted.err = OK

\* a blob that is too short and does not start with the signature has been
\* answered with ErrCiphertextShort
C20_Witness ==
    /\ decrypted.err = ErrCiphertextShort
    /\ Len(givenBlob) >= Len(FormatMagic)
    /\ BadMagic(givenBlob)

\* ---------------------------------------------------------------- C21
\* a Refresh call returns a token pair in this step
ReturnsPair == last'.op = "refresh" /\ last'.err = OK /\ last'.refresh # <<>>

C21_Step ==
    (rotateRefresh /\ ReturnsPair /\ BagCardinality(calls') < BagCardinality(calls))
        => last'.token \notin rotated

\* C21: with rotation enabled, of the Refresh calls that present one active
\* refresh token r together at most one returns a token pair: no call
\* returns a pair for a token on which another call has already returned one
C21_AtMostOnePair == [][C21_Step]_vars

\* ---------------------------------------------------------------- C22
\* the refresh token of session i, as its holder presents it
TokenOf(i) == NewRefreshToken(i)

C22_Step ==
    /\ \A i \in DOMAIN sessions :
          \* the replacement is recorded in the step that revokes, and only there
          /\ sessions'[i].replaced_by # sessions[i].replaced_by
                => /\ sessions[i].revoked_at = NullTime
                   /\ sessions'[i].revoked_at # NullTime
          \* a Refresh that starts on a rotated session finds it revoked
          /\ (sessions[i].replaced_by # NullID /\ Begins(TokenOf(i)))
                => /\ \A c \in Started : c.token = TokenOf(i) => c.pc = "revokeAll"
                   /\ calls' = calls
                         => /\ last'.err = ErrUnauthorized
                            /\ last'.refresh = <<>>
    /\ \A c \in Finished :
          \* the rotation step revokes and links at once
          (c.pc = "revokeAndReplace" /\ sessions[c.sessID].revoked_at = NullTime)
              => /\ sessions'[c.sessID].revoked_at # NullTime
                 /\ sessions'[c.sessID].replaced_by = c.newID

\* C22: rotation marks the old session revoked and records its replacement
\* in one step: no step leaves a session revoked by rotation without its
\* replacement id or linked without being revoked, and every Refresh of the
\* old token that starts after the rotation step finds the session revoked
C22_RotationIsAtomic == [][C22_Step]_vars

\* a Refresh that started after the rotation of its token stands before the
\* mass revoke, the session it read being revoked and linked to its replacement
C22_Witness ==
    \E c \in BagToSet(calls) :
        /\ c.pc = "revokeAll"
        /\ sessions[c.sessID].revoked_at # NullTime
        /\ sessions[c.sessID].replaced_by # NullID
        /\ sessions[sessions[c.sessID].replaced_by].revoked_at = NullTime

\* ---------------------------------------------------------------- C23
\* the rotating call c ends in this step, and the session it read as active
\* has meanwhile been revoked without a replacement, as only the mass revoke
\* of RevokeAllForUser revokes
OvertakenByMassRevoke(c) ==
    /\ c.pc = "revokeAndReplace"
    /\ sessions[c.sessID].revoked_at # NullTime
    /\ sessions[c.sessID].replaced_by = NullID

C23_Step ==
    \A c \in Finished :
        OvertakenByMassRevoke(c)
            => /\ \A i \in DOMAIN sessions' :
                     sessions'[i].user_id = c.userID => sessions'[i].revoked_at # NullTime
               /\ ReturnsPair => sessions'[c.newID].revoked_at # NullTime

\* C23: when a mass revoke of a user's sessions has taken effect while a
\* rotating Refresh of the same user was in flight, then once both calls have
\* completed the user has no active session and the Refresh has handed out
\* no refresh token that can be redeemed
C23_MassRevokeWins == [][C23_Step]_vars

\* ---------------------------------------------------------------- C24
\* C24: in every reachable state, a session that carries a replacement id
\* is revoked
C24_ReplacedImpliesRevoked ==
    \A i \in DOMAIN sessions :
        sessions[i].replaced_by # NullID => sessions[i].revoked_at # NullTime

\* a rotation has linked a session to its replacement
C24_Witness ==
    \E i \in DOMAIN sessions :
        /\ sessions[i].replaced_by \in DOMAIN sessions
        /\ sessions[i].revoked_at # NullTime
        /\ sessions[sessions[i].replaced_by].replaced_by = NullID

\* ---------------------------------------------------------------- C25
C25_Step ==
    \A i \in DOMAIN sessions :
        sessions[i].revoked_at # NullTime
            => /\ i \in DOMAIN sessions'
               /\ sessions'[i] = sessions[i]

\* C25: revoked is a terminal state of a session: once a session is revoked
\* no Login, Refresh or mass revoke makes it active again, clears or rewrites
\* its revocation, or deletes its row
C25_RevokedIsTerminal == [][C25_Step]_vars

\* a session revoked at an earlier time stands beside one revoked later
C25_Witness ==
    \E i, j \in DOMAIN sessions :
        /\ sessions[i].revoked_at # NullTime
        /\ sessions[j].revoked_at # NullTime
        /\ sessions[i].revoked_at < sessions[j].revoked_at

\* ---------------------------------------------------------------- C26
C26_Step ==
    \A i \in DOMAIN sessions :
        (sessions[i].expires_at <= now /\ Begins(TokenOf(i)))
            => /\ calls' = calls
               /\ last'.err = ErrUnauthorized
               /\ last'.access = NoAccess
               /\ last'.refresh = <<>>
               /\ sessions' = sessions

\* C26: a Refresh on a session whose expiry is at or before the current
\* time, the boundary expiry = now included, is answered Unauthorized and
\* changes no session, whether or not the session is revoked and whether or
\* not reuse detection is on
C26_ExpiredIsUnauthorized == [][C26_Step]_vars

\* ---------------------------------------------------------------- C27
C27_Step ==
    (~rotateRefresh /\ last'.op = "refresh" /\ last'.err = OK)
        => /\ last'.refresh = last'.token
           /\ \E i \in SessionOf(last'.token) :
                 last'.access = NewAccessToken(UUIDString(sessions[i].user_id), now)
           /\ sessions' = sessions
           /\ calls' = calls

Updated(row, data, t) ==
    [id |-> row.id, user_id |-> row.user_id,
     type |-> IF data.Type # <<>> THEN data.Type[1] ELSE row.type,
     title |-> IF data.Title # <<>> THEN data.Title[1] ELSE row.title,
     payload |-> IF data.Payload # <<>> THEN data.Payload[1] ELSE row.payload,
     meta |-> IF data.Meta # <<>> THEN data.Meta ELSE row.meta,
     version |-> row.version + 1, updated_at |-> t, created_at |-> row.created_at]

C28_Step ==
    /\ (resp'.op = "update" /\ resp'.err = OK) =>
          \E row \in secrets :
              /\ row.id = resp'.secretID
              /\ row.user_id = resp'.userID
              /\ row.version = resp'.version
              /\ secrets' = (secrets \ {row}) \cup {Updated(row, resp'.data, now)}
    /\ (Mutation(resp') /\ resp'.err \in {ErrConflict, ErrNotFound}) => secrets' = secrets
    /\ Lost # {} => secrets' = secrets

\* C28: a successful Update changes, in the addressed row only, exactly the
\* fields supplied in the request plus version and updated_at, and leaves
\* every field that was not supplied as it was; an Update or Delete that is
\* answered Conflict or NotFound changes no row, neither in the statement that
\* affected nothing nor in the probe that follows it
C28_UpdateFrame == [][C28_Step]_vars

\* an Update that supplied a title and no type has been applied beside
\* another row
C28_Witness ==
    /\ resp.op = "update"
    /\ resp.err = OK
    /\ resp.data.Title # <<>>
    /\ resp.data.Type = <<>>
    /\ \E row, other \in secrets :
          /\ row.id = resp.secretID
          /\ row.version = resp.version + 1
          /\ row.title = resp.data.Title[1]
          /\ row.type \in AllowedTypes
          /\ other.id # row.id

\* ---------------------------------------------------------------- C29
\* the sync command ends in this step
SyncEnds == cmd.name = "sync" /\ out'.name = "sync"

C29_Step ==
    SyncEnds =>
        \* a listing is taken over only if none of its items has an empty id
        /\ \A i \in DOMAIN out'.listed : out'.listed[i].ID # ""
        \* and a sync that fails on the listing changes nothing
        /\ out'.err \notin {OK, ErrSaveFailed}
              => /\ mirror' = mirror
                 /\ disk' = disk
                 /\ mirror' = snap.mirror
                 /\ disk' = snap.disk

\* C29: if an item the server returns during Sync has an empty id, at
\* whatever position of the list, Sync fails and neither the mirror in memory
\* nor its file is changed
C29_EmptyIDStopsSync == [][C29_Step]_vars

\* a sync has failed on an item with an empty id and the mirror, which holds
\* entries, and its file are what they were
C29_Witness ==
    /\ out.name = "sync"
    /\ out.err = ErrEmptyID
    /\ mirror # {}
    /\ mirror = snap.mirror
    /\ disk = snap.disk

\* ---------------------------------------------------------------- C30
\* the create command ends with success in this step
CreateEnds == cmd.name = "create" /\ out'.name = "create" /\ out'.err = OK

C30_Step ==
    CreateEnds =>
        \E pt \in Plaintexts :
            \* what was posted is the encoded envelope of the plaintext
            /\ cmd.payload = <<Base64(EncryptPayload(MasterPassword, pt))>>
            \* the mirror holds the same text, and Get opens it
            /\ \E e \in mirror' :
                  /\ e.Payload = cmd.payload[1]
                  /\ GetDecrypt(mirror', e.ID, MasterPassword) = [err |-> OK, plain |-> pt]

\* C30: the Create flow base64-encodes the sealed envelope before it sends
\* it, so the payload it posts and the payload it stores in the mirror are
\* both base64(envelope), and the secret it has created is opened by Get with
\* --decrypt under the same master password
C30_CreateStoresBase64 == [][C30_Step]_vars

====
